---- MODULE Spec2Model ----
(***************************************************************************)
(* Verification model of the aphrodite-shared orientation utilities:       *)
(* angle normalisation, the two world<->screen transform models, view      *)
(* frame keys and defaults, and the lock rule matcher.                     *)
(*                                                                         *)
(* JavaScript numbers are modelled as exact rationals [n, d] in lowest     *)
(* terms (d > 0), with NaN as the record [n |-> 0, d |-> 0].  Objects with *)
(* optional properties are records whose DOMAIN holds exactly the          *)
(* properties that are set.                                                *)
(***************************************************************************)
EXTENDS Integers, Sequences, FiniteSets, TLC

VARIABLES
    pc,               \* which operation was applied last
    worldLongitude,   \* argument worldLongitude (integer degrees)
    anchorLongitude,  \* argument anchorLongitude (integer degrees)
    viewFrame,        \* argument viewFrame
    screenAngle,      \* result of worldToScreenAngle
    worldBack,        \* result of screenToWorldLongitude on screenAngle
    legacyScreen,     \* result of the anchor-only worldToScreenAngle
    legacyBack,       \* result of the anchor-only screenToWorldLongitude
    degrees,          \* argument of normalizeDeg
    normalized,       \* normalizeDeg(degrees)
    renormalized,     \* normalizeDeg(normalized)
    otherFrame,       \* a second view frame
    frameKey,         \* viewFrameToKey(viewFrame)
    otherKey,         \* viewFrameToKey(otherFrame)
    otherScreen,      \* worldToScreenAngle under otherFrame
    keyOutcome,       \* how a call of viewFrameToKey ended
    partialFrame,     \* argument of normalizeViewFrame
    normalFrame,      \* normalizeViewFrame(partialFrame)
    renormalFrame,    \* normalizeViewFrame(normalFrame)
    lockRule,         \* argument rule of lockRuleApplies
    elementType,      \* argument elementType
    elementId,        \* argument elementId
    applies,          \* result of lockRuleApplies
    userDefinitions,  \* the registry's Map of user definitions, in
                      \* insertion order
    history,          \* the register and unregister calls made so far
    call,             \* the last registry call and its argument
    found,            \* result of getWheelDefinition
    removed,          \* result of unregisterWheelDefinition
    listed,           \* result of listWheelDefinitions
    json,             \* argument of the loader functions
    outcome,          \* how the loader call ended: a value or an error
    exportDefinition, \* argument definition of exportWheelDefinitionToJSON
    pretty,           \* argument pretty
    migrations,       \* the Map of registered migration functions
    sourceDefinition, \* argument definition of migrateWheelDefinition
    targetVersion,    \* argument targetVersion
    current,          \* local variable current
    currentVersion,   \* local variable currentVersion
    errors,           \* local variable errors
    result,           \* the MigrationResult returned
    applied,          \* the migration functions called, in order
    wheelName,        \* argument wheelName of createPresetFromWheel
    nameOfPreset,     \* argument presetName
    visualOverrides,  \* argument visualOverrides
    glyphOverrides,   \* argument glyphOverrides
    preset,           \* how createPresetFromWheel ended
    program,          \* the OrientationProgram of the chart view session
    appliedRuleIds,   \* OrientationRuntimeState.appliedRuleIds
    previousHousePositions, \* OrientationRuntimeState, "ASC" entry
    activeFrame,      \* the active ViewFrame of the session
    snapshot,         \* the ChartSnapshot of the last evaluation tick
    effectLog,        \* ids of the rules whose effect was applied, in order
    ticks             \* number of evaluation ticks so far

transformVars == <<worldLongitude, anchorLongitude, viewFrame, screenAngle,
                   worldBack, legacyScreen, legacyBack>>

angleVars == <<degrees, normalized, renormalized>>

keyVars == <<otherFrame, frameKey, otherKey, otherScreen, keyOutcome>>

frameVars == <<partialFrame, normalFrame, renormalFrame>>

lockVars == <<lockRule, elementType, elementId, applies>>

registryVars == <<userDefinitions, history, call, found, removed, listed>>

loaderVars == <<json, outcome, exportDefinition, pretty>>

migrationVars == <<migrations, sourceDefinition, targetVersion, current,
                   currentVersion, errors, result, applied>>

presetVars ==
    <<wheelName, nameOfPreset, visualOverrides, glyphOverrides, preset>>

wheelVars == <<registryVars, loaderVars, migrationVars, presetVars>>

ruleVars == <<program, appliedRuleIds, previousHousePositions, activeFrame,
              snapshot, effectLog, ticks>>

orientationVars ==
    <<transformVars, angleVars, keyVars, frameVars, lockVars, ruleVars>>

vars == <<pc, orientationVars, wheelVars>>

-----------------------------------------------------------------------------
(* Bounds of the explored inputs *)

LonStep == 15
MaxTurns == 1
MaxDeg == 725
MaxDen == 2
MaxListLen == 2
MaxOps == 3
MaxRings == 2
MaxMigrations == 2
MaxPatch == 4
MaxRules == 3
MaxTicks == 3

(* Program constants *)
FullCircle == 360
HalfCircle == 180

-----------------------------------------------------------------------------
(* JavaScript number arithmetic, exact *)

NaN == [n |-> 0, d |-> 0]

IsNaN(a) == a.d = 0

Abs(i) == IF i < 0 THEN -i ELSE i

RECURSIVE Gcd(_, _)
Gcd(a, b) == IF b = 0 THEN a ELSE Gcd(b, a % b)

Rat(num, den) ==
    IF den = 0 THEN NaN
    ELSE LET g == Gcd(Abs(num), Abs(den))
             s == IF den < 0 THEN -1 ELSE 1
         IN  [n |-> (s * num) \div g, d |-> (s * den) \div g]

Q(i) == [n |-> i, d |-> 1]

RAdd(a, b) == IF IsNaN(a) \/ IsNaN(b) THEN NaN
              ELSE Rat(a.n * b.d + b.n * a.d, a.d * b.d)

RNeg(a) == IF IsNaN(a) THEN NaN ELSE [n |-> -a.n, d |-> a.d]

RSub(a, b) == RAdd(a, RNeg(b))

RMul(a, b) == IF IsNaN(a) \/ IsNaN(b) THEN NaN
              ELSE Rat(a.n * b.n, a.d * b.d)

RDiv(a, b) == IF IsNaN(a) \/ IsNaN(b) THEN NaN
              ELSE Rat(a.n * b.d, a.d * b.n)

RLt(a, b) == ~IsNaN(a) /\ ~IsNaN(b) /\ a.n * b.d < b.n * a.d

RGt(a, b) == RLt(b, a)

RGe(a, b) == ~IsNaN(a) /\ ~IsNaN(b) /\ a.n * b.d >= b.n * a.d

(* a % m of JavaScript: the remainder takes the sign of the dividend *)
JsRem(a, m) ==
    IF IsNaN(a) THEN NaN
    ELSE LET k == m * a.d
             r == IF a.n >= 0 THEN a.n % k ELSE -((-a.n) % k)
         IN  Rat(r, a.d)

-----------------------------------------------------------------------------
(* Objects with optional properties *)

NoProps == [k \in {} |-> 0]

Has(obj, prop) == prop \in DOMAIN obj

(* the property as a number; a property that is not set reads undefined,    *)
(* which arithmetic turns into NaN                                          *)
NumProp(obj, prop) == IF Has(obj, prop) THEN Q(obj[prop]) ELSE NaN

(* the direction property used as a factor: 1 and -1 are numbers, 'cw' and  *)
(* 'ccw' are strings that multiply to NaN                                   *)
ToNumber(direction) ==
    CASE direction = "1" -> Q(1)
      [] direction = "-1" -> Q(-1)
      [] OTHER -> NaN

Truthy(obj, prop) == Has(obj, prop) /\ obj[prop] = TRUE

-----------------------------------------------------------------------------
(* Angle math *)

(* variant: the remainder returned without the sign correction *)
normalizeDegNoSignFix(x) == JsRem(x, FullCircle)

normalizeDeg(x) ==
    LET rem == JsRem(x, FullCircle)
    IN  IF RLt(rem, Q(0)) THEN RAdd(rem, Q(FullCircle)) ELSE rem

RECURSIVE WhileAbove(_, _, _)
WhileAbove(x, limit, step) ==
    IF RGt(x, Q(limit)) THEN WhileAbove(RSub(x, Q(step)), limit, step) ELSE x

RECURSIVE WhileBelow(_, _, _)
WhileBelow(x, limit, step) ==
    IF RLt(x, Q(limit)) THEN WhileBelow(RAdd(x, Q(step)), limit, step) ELSE x

RECURSIVE WhileAtLeast(_, _, _)
WhileAtLeast(x, limit, step) ==
    IF RGe(x, Q(limit)) THEN WhileAtLeast(RSub(x, Q(step)), limit, step) ELSE x

(* the two while loops that fold an offset into [-180, 180] *)
FoldOffset(offset) ==
    WhileBelow(WhileAbove(offset, HalfCircle, FullCircle),
               -HalfCircle, FullCircle)

(* variant: the delta used without folding it to the shortest path *)
FoldDeltaSkipped(delta) == delta

(* the two if statements of the zero-point branches *)
FoldDelta(delta) ==
    LET d1 == IF RGt(delta, Q(HalfCircle)) THEN RSub(delta, Q(FullCircle))
              ELSE delta
    IN  IF RLt(d1, Q(-HalfCircle)) THEN RAdd(d1, Q(FullCircle)) ELSE d1

(* the two while loops that normalise into [0, 360) in the anchor-only file *)
LoopNormalize(x) ==
    WhileAtLeast(WhileBelow(x, 0, FullCircle), FullCircle, FullCircle)

-----------------------------------------------------------------------------
(* View frame transform *)

UsesZeroPoint(frame) == Has(frame, "worldZero") /\ Has(frame, "screenZero")

(* variant: radialFlip reverses the direction of the zero-point model *)
DirectionOr1RadialReversed(frame) ==
    LET dir == IF Has(frame, "direction") THEN ToNumber(frame.direction)
               ELSE Q(1)
    IN  IF Truthy(frame, "radialFlip") THEN RNeg(dir) ELSE dir

DirectionOr1(frame) ==
    IF Has(frame, "direction") THEN ToNumber(frame.direction) ELSE Q(1)

ScaleOr1(frame) == IF Has(frame, "scale") THEN frame.scale ELSE Q(1)

(* variant: the anchor-relative result returned without normalising it *)
worldToScreenAngleUnnormalized(longitude, frame, anchor) ==
    IF UsesZeroPoint(frame)
    THEN LET delta == normalizeDeg(RSub(longitude, Q(frame.worldZero)))
             normalizedDelta == FoldDelta(delta)
         IN  normalizeDeg(RAdd(Q(frame.screenZero),
                 RMul(RMul(DirectionOr1(frame), normalizedDelta),
                      ScaleOr1(frame))))
    ELSE LET offset0 == FoldOffset(RSub(longitude, anchor))
             offset == IF Has(frame, "direction") /\ frame.direction = "ccw"
                       THEN RNeg(offset0) ELSE offset0
             base == NumProp(frame, "screenAngleDeg")
             plain == RAdd(base, offset)
         IN  IF Truthy(frame, "angularFlip")
             THEN RSub(base, RSub(plain, base)) ELSE plain

(* variant: angularFlip not applied in the anchor-relative branch *)
worldToScreenAngleFlipIgnored(longitude, frame, anchor) ==
    IF UsesZeroPoint(frame)
    THEN LET delta == normalizeDeg(RSub(longitude, Q(frame.worldZero)))
             normalizedDelta == FoldDelta(delta)
         IN  normalizeDeg(RAdd(Q(frame.screenZero),
                 RMul(RMul(DirectionOr1(frame), normalizedDelta),
                      ScaleOr1(frame))))
    ELSE LET offset0 == FoldOffset(RSub(longitude, anchor))
             offset == IF Has(frame, "direction") /\ frame.direction = "ccw"
                       THEN RNeg(offset0) ELSE offset0
         IN  normalizeDeg(RAdd(NumProp(frame, "screenAngleDeg"), offset))

worldToScreenAngle(longitude, frame, anchor) ==
    IF UsesZeroPoint(frame)
    THEN LET delta == normalizeDeg(RSub(longitude, Q(frame.worldZero)))
             normalizedDelta == FoldDelta(delta)
         IN  normalizeDeg(RAdd(Q(frame.screenZero),
                 RMul(RMul(DirectionOr1(frame), normalizedDelta),
                      ScaleOr1(frame))))
    ELSE LET offset0 == FoldOffset(RSub(longitude, anchor))
             offset == IF Has(frame, "direction") /\ frame.direction = "ccw"
                       THEN RNeg(offset0) ELSE offset0
             base == NumProp(frame, "screenAngleDeg")
             plain == RAdd(base, offset)
             flipped == IF Truthy(frame, "angularFlip")
                        THEN RSub(base, RSub(plain, base)) ELSE plain
         IN  normalizeDeg(flipped)

(* variant: the anchor-relative inverse does not undo angularFlip *)
screenToWorldLongitudeNoFlip(screen, frame, anchor) ==
    IF UsesZeroPoint(frame)
    THEN LET normalizedScreen == normalizeDeg(screen)
             delta == RSub(normalizedScreen, Q(frame.screenZero))
             normalizedDelta == FoldDelta(delta)
         IN  normalizeDeg(RAdd(Q(frame.worldZero),
                 RMul(RDiv(normalizedDelta, ScaleOr1(frame)),
                      DirectionOr1(frame))))
    ELSE LET normalizedScreen == normalizeDeg(screen)
             offset0 == FoldOffset(RSub(normalizedScreen,
                                        NumProp(frame, "screenAngleDeg")))
             offset == IF Has(frame, "direction") /\ frame.direction = "ccw"
                       THEN RNeg(offset0) ELSE offset0
         IN  normalizeDeg(RAdd(anchor, offset))

(* variant: the zero-point inverse does not undo the direction *)
screenToWorldLongitudeNoDirection(screen, frame, anchor) ==
    IF UsesZeroPoint(frame)
    THEN LET normalizedScreen == normalizeDeg(screen)
             delta == RSub(normalizedScreen, Q(frame.screenZero))
             normalizedDelta == FoldDelta(delta)
         IN  normalizeDeg(RAdd(Q(frame.worldZero),
                 RDiv(normalizedDelta, ScaleOr1(frame))))
    ELSE LET normalizedScreen == normalizeDeg(screen)
             offset0 == FoldOffset(RSub(normalizedScreen,
                                        NumProp(frame, "screenAngleDeg")))
             offset1 == IF Truthy(frame, "angularFlip")
                        THEN RNeg(offset0) ELSE offset0
             offset == IF Has(frame, "direction") /\ frame.direction = "ccw"
                       THEN RNeg(offset1) ELSE offset1
         IN  normalizeDeg(RAdd(anchor, offset))

screenToWorldLongitude(screen, frame, anchor) ==
    IF UsesZeroPoint(frame)
    THEN LET normalizedScreen == normalizeDeg(screen)
             delta == RSub(normalizedScreen, Q(frame.screenZero))
             normalizedDelta == FoldDelta(delta)
         IN  normalizeDeg(RAdd(Q(frame.worldZero),
                 RMul(RDiv(normalizedDelta, ScaleOr1(frame)),
                      DirectionOr1(frame))))
    ELSE LET normalizedScreen == normalizeDeg(screen)
             offset0 == FoldOffset(RSub(normalizedScreen,
                                        NumProp(frame, "screenAngleDeg")))
             offset1 == IF Truthy(frame, "angularFlip")
                        THEN RNeg(offset0) ELSE offset0
             offset == IF Has(frame, "direction") /\ frame.direction = "ccw"
                       THEN RNeg(offset1) ELSE offset1
         IN  normalizeDeg(RAdd(anchor, offset))

(* the anchor-only utilities *)
legacyWorldToScreenAngle(longitude, frame, anchor) ==
    LET offset0 == FoldOffset(RSub(longitude, anchor))
        offset == IF Has(frame, "direction") /\ frame.direction = "ccw"
                  THEN RNeg(offset0) ELSE offset0
        base == NumProp(frame, "screenAngleDeg")
        plain == RAdd(base, offset)
        flipped == IF Truthy(frame, "angularFlip")
                   THEN RSub(base, RSub(plain, base)) ELSE plain
    IN  LoopNormalize(flipped)

legacyScreenToWorldLongitude(screen, frame, anchor) ==
    LET normalizedScreen == LoopNormalize(screen)
        offset0 == FoldOffset(RSub(normalizedScreen,
                                   NumProp(frame, "screenAngleDeg")))
        offset1 == IF Truthy(frame, "angularFlip")
                   THEN RNeg(offset0) ELSE offset0
        offset == IF Has(frame, "direction") /\ frame.direction = "ccw"
                  THEN RNeg(offset1) ELSE offset1
    IN  LoopNormalize(RAdd(anchor, offset))

-----------------------------------------------------------------------------
(* View frame keys and defaults *)

anchorTargetToKey(anchor) ==
    CASE anchor.kind = "object" -> anchor.id
      [] anchor.kind = "house" -> ToString(anchor.index)
      [] anchor.kind = "sign" -> ToString(anchor.index)
      [] anchor.kind = "angle" -> anchor.type
      [] OTHER -> ""

RECURSIVE Join(_, _)
Join(parts, sep) ==
    IF Len(parts) = 0 THEN ""
    ELSE IF Len(parts) = 1 THEN parts[1]
    ELSE parts[1] \o sep \o Join(Tail(parts), sep)

NonEmpty(part) == part # ""

viewFrameToKey(frame) ==
    LET parts == <<
            frame.referenceFrame,
            frame.anchor.kind \o ":" \o anchorTargetToKey(frame.anchor),
            ToString(frame.screenAngleDeg),
            IF Has(frame, "direction") THEN frame.direction ELSE "",
            IF Truthy(frame, "radialFlip") THEN "rf" ELSE "",
            IF Truthy(frame, "angularFlip") THEN "af" ELSE "" >>
    IN  Join(SelectSeq(parts, NonEmpty), "|")

(* obj.prop ?? default *)
Coalesce(obj, prop, default) == IF Has(obj, prop) THEN obj[prop] ELSE default

DefaultAnchor == [kind |-> "angle", type |-> "ASC"]

(* variant: screenAngleDeg filled with || instead of ??, so that 0 counts   *)
(* as omitted                                                               *)
normalizeViewFrameOr(frame) ==
    [referenceFrame |-> Coalesce(frame, "referenceFrame", "ecliptic"),
     anchor |-> Coalesce(frame, "anchor", DefaultAnchor),
     screenAngleDeg |->
         IF Has(frame, "screenAngleDeg") /\ frame.screenAngleDeg # 0
         THEN frame.screenAngleDeg ELSE 180,
     direction |-> Coalesce(frame, "direction", "ccw"),
     radialFlip |-> Coalesce(frame, "radialFlip", FALSE),
     angularFlip |-> Coalesce(frame, "angularFlip", FALSE)]

normalizeViewFrame(frame) ==
    [referenceFrame |-> Coalesce(frame, "referenceFrame", "ecliptic"),
     anchor |-> Coalesce(frame, "anchor", DefaultAnchor),
     screenAngleDeg |-> Coalesce(frame, "screenAngleDeg", 180),
     direction |-> Coalesce(frame, "direction", "ccw"),
     radialFlip |-> Coalesce(frame, "radialFlip", FALSE),
     angularFlip |-> Coalesce(frame, "angularFlip", FALSE)]

-----------------------------------------------------------------------------
(* Lock rule matcher *)

(* list.includes(x) *)
Includes(list, x) == \E i \in 1..Len(list) : list[i] = x

(* variant: only the first entry of a list is compared *)
lockRuleAppliesFirstOnly(rule, type, id) ==
    LET First(list) == Len(list) > 0 /\ list[1] = id
    IN  IF rule.subject.kind # type THEN FALSE
        ELSE CASE rule.subject.kind = "object" -> First(rule.subject.ids)
               [] rule.subject.kind \in {"house", "sign"} ->
                      IF ~Has(rule.subject, "indices") THEN TRUE
                      ELSE First(rule.subject.indices)
               [] rule.subject.kind = "angle" ->
                      IF ~Has(rule.subject, "types") THEN TRUE
                      ELSE First(rule.subject.types)
               [] OTHER -> FALSE

(* variant: an empty list counts as an absent one *)
lockRuleAppliesEmptyWildcard(rule, type, id) ==
    LET Wild(obj, prop) == ~Has(obj, prop) \/ Len(obj[prop]) = 0
    IN  IF rule.subject.kind # type THEN FALSE
        ELSE CASE rule.subject.kind = "object" ->
                      Includes(rule.subject.ids, id)
               [] rule.subject.kind \in {"house", "sign"} ->
                      IF Wild(rule.subject, "indices") THEN TRUE
                      ELSE Includes(rule.subject.indices, id)
               [] rule.subject.kind = "angle" ->
                      IF Wild(rule.subject, "types") THEN TRUE
                      ELSE Includes(rule.subject.types, id)
               [] OTHER -> FALSE

lockRuleApplies(rule, type, id) ==
    IF rule.subject.kind # type THEN FALSE
    ELSE CASE rule.subject.kind = "object" ->
                  Includes(rule.subject.ids, id)
           [] rule.subject.kind = "house" ->
                  IF ~Has(rule.subject, "indices") THEN TRUE
                  ELSE Includes(rule.subject.indices, id)
           [] rule.subject.kind = "sign" ->
                  IF ~Has(rule.subject, "indices") THEN TRUE
                  ELSE Includes(rule.subject.indices, id)
           [] rule.subject.kind = "angle" ->
                  IF ~Has(rule.subject, "types") THEN TRUE
                  ELSE Includes(rule.subject.types, id)
           [] OTHER -> FALSE

-----------------------------------------------------------------------------
(* Strings the registry inspects character by character are sequences of    *)
(* one-character strings                                                    *)

UpperCase ==
    <<"A", "B", "C", "D", "E", "F", "G", "H", "I", "J", "K", "L", "M",
      "N", "O", "P", "Q", "R", "S", "T", "U", "V", "W", "X", "Y", "Z">>

LowerCase ==
    <<"a", "b", "c", "d", "e", "f", "g", "h", "i", "j", "k", "l", "m",
      "n", "o", "p", "q", "r", "s", "t", "u", "v", "w", "x", "y", "z">>

(* String.prototype.toLowerCase *)
toLowerCase(str) ==
    [i \in 1..Len(str) |->
        IF \E k \in 1..Len(UpperCase) : UpperCase[k] = str[i]
        THEN LowerCase[CHOOSE k \in 1..Len(UpperCase) : UpperCase[k] = str[i]]
        ELSE str[i]]

(* the characters the class \s matches *)
IsWhitespace(char) == char \in {" ", "\t", "\n"}

RECURSIVE SkipWhitespace(_)
SkipWhitespace(str) ==
    IF Len(str) > 0 /\ IsWhitespace(Head(str))
    THEN SkipWhitespace(Tail(str)) ELSE str

(* str.replace(/\s+/g, '-') *)
RECURSIVE ReplaceWhitespaceRuns(_)
ReplaceWhitespaceRuns(str) ==
    IF Len(str) = 0 THEN <<>>
    ELSE IF IsWhitespace(Head(str))
         THEN <<"-">> \o ReplaceWhitespaceRuns(SkipWhitespace(Tail(str)))
         ELSE <<Head(str)>> \o ReplaceWhitespaceRuns(Tail(str))

-----------------------------------------------------------------------------
(* Wheel definition registry *)

Undefined == [undefined |-> TRUE]

(* 'Standard Natal Wheel' *)
StandardNatalName ==
    <<"S", "t", "a", "n", "d", "a", "r", "d", " ", "N", "a", "t", "a", "l",
      " ", "W", "h", "e", "e", "l">>

(* 'Vedic Natal Wheel' *)
VedicNatalName ==
    <<"V", "e", "d", "i", "c", " ", "N", "a", "t", "a", "l", " ",
      "W", "h", "e", "e", "l">>

(* the case label 'standard-natal-wheel' *)
StandardNatalKey ==
    <<"s", "t", "a", "n", "d", "a", "r", "d", "-", "n", "a", "t", "a", "l",
      "-", "w", "h", "e", "e", "l">>

(* 'Bi-Wheel Natal-Transit' *)
BiWheelNatalTransitName ==
    <<"B", "i", "-", "W", "h", "e", "e", "l", " ", "N", "a", "t", "a", "l",
      "-", "T", "r", "a", "n", "s", "i", "t">>

(* 'Simple Natal Wheel' *)
SimpleNatalName ==
    <<"S", "i", "m", "p", "l", "e", " ", "N", "a", "t", "a", "l", " ", "W",
      "h", "e", "e", "l">>

(* 'Bi-Wheel Synastry' *)
BiWheelSynastryName ==
    <<"B", "i", "-", "W", "h", "e", "e", "l", " ", "S", "y", "n", "a", "s",
      "t", "r", "y">>

(* 'Complex Natal Wheel' *)
ComplexNatalName ==
    <<"C", "o", "m", "p", "l", "e", "x", " ", "N", "a", "t", "a", "l", " ",
      "W", "h", "e", "e", "l">>

(* a ring of a built-in wheel; the radii are given in hundredths *)
Ring(slug, type, label, orderIndex, inner, outer, dataSource) ==
    [slug |-> slug, type |-> type, label |-> label,
     orderIndex |-> orderIndex,
     radiusInner |-> Rat(inner, 100), radiusOuter |-> Rat(outer, 100),
     dataSource |-> dataSource, displayOptions |-> NoProps]

standardNatal ==
    [name |-> StandardNatalName,
     description |-> "Default wheel with signs, houses, and planets",
     version |-> <<"1", ".", "0", ".", "0">>,
     author |-> "Gaia Tools",
     tags |-> <<"natal", "standard", "default">>,
     rings |->
         <<Ring("ring_signs", "signs", "Zodiac Signs", 0, 85, 100,
              [kind |-> "static_zodiac"]),
           Ring("ring_houses", "houses", "Houses", 1, 75, 85,
              [kind |-> "layer_houses", layerId |-> "natal"]),
           Ring("ring_planets", "planets", "Natal Planets", 2, 55, 75,
              [kind |-> "layer_planets", layerId |-> "natal"])>>,
     config |-> NoProps,
     defaultVisualConfig |-> [ringWidth |-> 30, ringSpacing |-> 10],
     defaultGlyphConfig |-> [glyphSize |-> 12]]

vedicNatal ==
    [name |-> VedicNatalName,
     description |-> "Sidereal layout with nakshatra ring and Navamsa overlay",
     version |-> <<"1", ".", "0", ".", "0">>,
     author |-> "Gaia Tools",
     tags |-> <<"vedic", "jyotish", "sidereal">>,
     rings |->
         <<Ring("ring_nakshatras", "signs", "Nakshatras", 0, 85, 100,
              [kind |-> "static_nakshatras"]),
           Ring("ring_houses", "houses", "Whole Sign Houses", 1, 75, 85,
              [kind |-> "layer_houses", layerId |-> "natal"]),
           Ring("ring_planets", "planets", "Natal Planets", 2, 55, 75,
              [kind |-> "layer_planets", layerId |-> "natal"]),
           Ring("ring_navamsa", "planets", "Navamsa Overlay", 3, 35, 55,
              [kind |-> "layer_varga_planets", layerId |-> "natal",
               vargaId |-> "d9"])>>,
     config |-> NoProps,
     defaultVisualConfig |-> [ringWidth |-> 28, ringSpacing |-> 8],
     defaultGlyphConfig |-> [glyphSize |-> 12]]

biWheelNatalTransit ==
    [name |-> BiWheelNatalTransitName,
     description |-> "Bi-wheel showing natal chart with transit overlays",
     version |-> <<"1", ".", "0", ".", "0">>,
     author |-> "Gaia Tools",
     tags |-> <<"bi-wheel", "natal", "transit">>,
     rings |->
         <<Ring("ring_signs", "signs", "Zodiac Signs", 0, 90, 100,
              [kind |-> "static_zodiac"]),
           Ring("ring_houses_natal", "houses", "Natal Houses", 1, 80, 90,
              [kind |-> "layer_houses", layerId |-> "natal"]),
           Ring("ring_planets_transit", "planets", "Transit Planets", 2, 65, 80,
              [kind |-> "layer_planets", layerId |-> "transit"]),
           Ring("ring_planets_natal", "planets", "Natal Planets", 3, 45, 65,
              [kind |-> "layer_planets", layerId |-> "natal"])>>,
     config |-> NoProps,
     defaultVisualConfig |-> [ringWidth |-> 25, ringSpacing |-> 8],
     defaultGlyphConfig |-> [glyphSize |-> 11]]

simpleNatal ==
    [name |-> SimpleNatalName,
     description |-> 
         "Minimal natal wheel with just signs, houses, and major planets",
     version |-> <<"1", ".", "0", ".", "0">>,
     author |-> "Gaia Tools",
     tags |-> <<"natal", "simple", "minimal">>,
     rings |->
         <<Ring("ring_signs", "signs", "Zodiac Signs", 0, 85, 100,
              [kind |-> "static_zodiac"]),
           Ring("ring_houses", "houses", "Houses", 1, 75, 85,
              [kind |-> "layer_houses", layerId |-> "natal"]),
           Ring("ring_planets", "planets", "Major Planets", 2, 60, 75,
              [kind |-> "layer_planets", layerId |-> "natal"])>>,
     config |-> NoProps,
     defaultVisualConfig |-> [ringWidth |-> 30, ringSpacing |-> 12],
     defaultGlyphConfig |-> [glyphSize |-> 14]]

biWheelSynastry ==
    [name |-> BiWheelSynastryName,
     description |-> "Bi-wheel for comparing two natal charts side by side",
     version |-> <<"1", ".", "0", ".", "0">>,
     author |-> "Gaia Tools",
     tags |-> <<"bi-wheel", "synastry">>,
     rings |->
         <<Ring("ring_signs", "signs", "Zodiac Signs", 0, 90, 100,
              [kind |-> "static_zodiac"]),
           Ring("ring_houses_a", "houses", "Person A Houses", 1, 80, 90,
              [kind |-> "layer_houses", layerId |-> "person_a"]),
           Ring("ring_planets_a", "planets", "Person A Planets", 2, 65, 80,
              [kind |-> "layer_planets", layerId |-> "person_a"]),
           Ring("ring_houses_b", "houses", "Person B Houses", 3, 50, 65,
              [kind |-> "layer_houses", layerId |-> "person_b"]),
           Ring("ring_planets_b", "planets", "Person B Planets", 4, 30, 50,
              [kind |-> "layer_planets", layerId |-> "person_b"])>>,
     config |-> NoProps,
     defaultVisualConfig |-> [ringWidth |-> 20, ringSpacing |-> 8],
     defaultGlyphConfig |-> [glyphSize |-> 10]]

complexNatal ==
    [name |-> ComplexNatalName,
     description |-> 
         "Extended natal wheel with aspects, asteroids, and additional detail",
     version |-> <<"1", ".", "0", ".", "0">>,
     author |-> "Gaia Tools",
     tags |-> <<"natal", "complex", "detailed">>,
     rings |->
         <<Ring("ring_signs", "signs", "Zodiac Signs", 0, 88, 100,
              [kind |-> "static_zodiac"]),
           Ring("ring_houses", "houses", "Houses", 1, 78, 88,
              [kind |-> "layer_houses", layerId |-> "natal"]),
           Ring("ring_aspects", "aspects", "Major Aspects", 2, 70, 78,
              [kind |-> "aspect_set", aspectSetId |-> "natal_major",
               filter |-> [onlyMajor |-> TRUE]]),
           Ring("ring_planets", "planets", "Natal Planets", 3, 50, 70,
              [kind |-> "layer_planets", layerId |-> "natal"])>>,
     config |-> NoProps,
     defaultVisualConfig |-> [ringWidth |-> 28, ringSpacing |-> 8],
     defaultGlyphConfig |-> [glyphSize |-> 13]]

(* a Map as the sequence of its entries in insertion order *)
MapHas(map, key) == \E i \in 1..Len(map) : map[i].key = key

MapGet(map, key) ==
    IF MapHas(map, key)
    THEN map[CHOOSE i \in 1..Len(map) : map[i].key = key].value
    ELSE Undefined

MapSet(map, key, value) ==
    IF MapHas(map, key)
    THEN [map EXCEPT ![CHOOSE i \in 1..Len(map) : map[i].key = key].value
                         = value]
    ELSE Append(map, [key |-> key, value |-> value])

(* variant: delete removes the oldest entry, whatever its key *)
MapDeleteOldest(map, key) ==
    IF \E i \in 1..Len(map) : map[i].key = key THEN Tail(map) ELSE map

MapDelete(map, key) ==
    LET Other(entry) == entry.key # key
    IN  SelectSeq(map, Other)

MapValues(map) == [i \in 1..Len(map) |-> map[i].value]

(* variant: the name is not lower-cased *)
normalizeWheelNameCaseKept(name) == ReplaceWhitespaceRuns(name)

normalizeWheelName(name) == ReplaceWhitespaceRuns(toLowerCase(name))

(* variant: only the user definitions are looked up *)
getWheelDefinitionUserOnly(name) ==
    MapGet(userDefinitions, normalizeWheelName(name))

getWheelDefinition(name) ==
    LET key == normalizeWheelName(name)
    IN  IF MapHas(userDefinitions, key) THEN MapGet(userDefinitions, key)
        ELSE CASE key = StandardNatalKey -> standardNatal
               [] OTHER -> Undefined

(* variant: the user definitions are listed without the built-in *)
listWheelDefinitionsUserOnly == MapValues(userDefinitions)

listWheelDefinitions == <<standardNatal>> \o MapValues(userDefinitions)

getBuiltInWheelNames == <<StandardNatalName>>

-----------------------------------------------------------------------------
(* JSON values: every value carries its JavaScript type                     *)

Str(chars) == [t |-> "string", v |-> chars]

Num(q) == [t |-> "number", v |-> q]

Obj(props) == [t |-> "object", v |-> props]

Arr(items) == [t |-> "array", v |-> items]

Bool(b) == [t |-> "boolean", v |-> b]

Null == [t |-> "null"]

Undef == [t |-> "undefined"]

(* typeof x *)
TypeOf(x) == IF x.t \in {"array", "null"} THEN "object" ELSE x.t

(* x.prop, for an x that is not null or undefined *)
Prop(x, prop) ==
    IF x.t = "object" /\ prop \in DOMAIN x.v THEN x.v[prop] ELSE Undef

(* !x *)
Falsy(x) ==
    \/ x.t \in {"null", "undefined"}
    \/ x.t = "string" /\ Len(x.v) = 0
    \/ x.t = "number" /\ (IsNaN(x.v) \/ x.v = Q(0))

(* typeof x !== 'string' || !x *)
NotNonEmptyString(x) == TypeOf(x) # "string" \/ Falsy(x)

(* array.includes(x) for an array of strings *)
IncludesString(strings, x) == x.t = "string" /\ x.v \in strings

-----------------------------------------------------------------------------
(* Wheel definition loader: how a call ends *)

Returned(value) == [kind |-> "return", value |-> value]

(* throw new WheelDefinitionValidationError(message, field) *)
ThrownAt(field) ==
    [kind |-> "throw",
     error |-> [name |-> "WheelDefinitionValidationError", field |-> field]]

(* throw new WheelDefinitionValidationError(message) *)
Thrown ==
    [kind |-> "throw", error |-> [name |-> "WheelDefinitionValidationError"]]

Passed == [kind |-> "return", value |-> Undef]

(* str.split(sep) *)
RECURSIVE Split(_, _)
Split(str, sep) ==
    IF \E i \in 1..Len(str) : str[i] = sep
    THEN LET at == CHOOSE i \in 1..Len(str) :
                       str[i] = sep /\ \A j \in 1..(i - 1) : str[j] # sep
         IN  <<SubSeq(str, 1, at - 1)>>
                 \o Split(SubSeq(str, at + 1, Len(str)), sep)
    ELSE <<str>>

Digits == <<"0", "1", "2", "3", "4", "5", "6", "7", "8", "9">>

(* \d+ *)
IsDigits(str) ==
    /\ Len(str) > 0
    /\ \A i \in 1..Len(str) : \E k \in 1..Len(Digits) : Digits[k] = str[i]

(* /^\d+\.\d+\.\d+$/.test(str) *)
MatchesVersion(str) ==
    LET parts == Split(str, ".")
    IN  Len(parts) = 3 /\ \A i \in 1..3 : IsDigits(parts[i])

(* variant: the order of the two radii is not checked *)
validateRingDefinitionAnyOrder(ring, index) ==
    LET At(suffix) == ThrownAt("rings[" \o ToString(index) \o "]" \o suffix)
        slug == Prop(ring, "slug")
        label == Prop(ring, "label")
        inner == Prop(ring, "radiusInner")
        outer == Prop(ring, "radiusOuter")
        source == Prop(ring, "dataSource")
        kind == Prop(source, "kind")
        OutOfRange(r) ==
            TypeOf(r) # "number" \/ RLt(r.v, Q(0)) \/ RGt(r.v, Q(1))
    IN  IF Falsy(ring) \/ TypeOf(ring) # "object" THEN At("")
        ELSE IF NotNonEmptyString(slug) THEN At(".slug")
        ELSE IF ~IncludesString({"signs", "houses", "planets", "aspects"},
                                Prop(ring, "type"))
             THEN At(".type")
        ELSE IF NotNonEmptyString(label) THEN At(".label")
        ELSE IF TypeOf(Prop(ring, "orderIndex")) # "number"
             THEN At(".orderIndex")
        ELSE IF OutOfRange(inner) THEN At(".radiusInner")
        ELSE IF OutOfRange(outer) THEN At(".radiusOuter")
        ELSE IF Falsy(source) \/ TypeOf(source) # "object"
             THEN At(".dataSource")
        ELSE IF ~IncludesString({"static_zodiac", "layer_houses",
                                 "layer_planets", "aspect_set"}, kind)
             THEN At(".dataSource.kind")
        ELSE IF /\ kind.v \in {"layer_houses", "layer_planets"}
                /\ NotNonEmptyString(Prop(source, "layerId"))
             THEN At(".dataSource.layerId")
        ELSE IF /\ kind.v = "aspect_set"
                /\ NotNonEmptyString(Prop(source, "aspectSetId"))
             THEN At(".dataSource.aspectSetId")
        ELSE Passed

validateRingDefinition(ring, index) ==
    LET At(suffix) == ThrownAt("rings[" \o ToString(index) \o "]" \o suffix)
        slug == Prop(ring, "slug")
        label == Prop(ring, "label")
        inner == Prop(ring, "radiusInner")
        outer == Prop(ring, "radiusOuter")
        source == Prop(ring, "dataSource")
        kind == Prop(source, "kind")
        OutOfRange(r) ==
            TypeOf(r) # "number" \/ RLt(r.v, Q(0)) \/ RGt(r.v, Q(1))
    IN  IF Falsy(ring) \/ TypeOf(ring) # "object" THEN At("")
        ELSE IF NotNonEmptyString(slug) THEN At(".slug")
        ELSE IF ~IncludesString({"signs", "houses", "planets", "aspects"},
                                Prop(ring, "type"))
             THEN At(".type")
        ELSE IF NotNonEmptyString(label) THEN At(".label")
        ELSE IF TypeOf(Prop(ring, "orderIndex")) # "number"
             THEN At(".orderIndex")
        ELSE IF OutOfRange(inner) THEN At(".radiusInner")
        ELSE IF OutOfRange(outer) THEN At(".radiusOuter")
        ELSE IF RGe(inner.v, outer.v) THEN At(".radius")
        ELSE IF Falsy(source) \/ TypeOf(source) # "object"
             THEN At(".dataSource")
        ELSE IF ~IncludesString({"static_zodiac", "layer_houses",
                                 "layer_planets", "aspect_set"}, kind)
             THEN At(".dataSource.kind")
        ELSE IF /\ kind.v \in {"layer_houses", "layer_planets"}
                /\ NotNonEmptyString(Prop(source, "layerId"))
             THEN At(".dataSource.layerId")
        ELSE IF /\ kind.v = "aspect_set"
                /\ NotNonEmptyString(Prop(source, "aspectSetId"))
             THEN At(".dataSource.aspectSetId")
        ELSE Passed

(* definition.rings.forEach(validateRingDefinition): the first ring that    *)
(* does not pass decides; the callback's index counts from 0                *)
validateRings(rings) ==
    LET failing == {i \in 1..Len(rings) :
                       validateRingDefinition(rings[i], i - 1) # Passed}
    IN  IF failing = {} THEN Passed
        ELSE LET first == CHOOSE i \in failing : \A j \in failing : i <= j
             IN  validateRingDefinition(rings[first], first - 1)

validateWheelDefinition(definition) ==
    LET name == Prop(definition, "name")
        rings == Prop(definition, "rings")
        description == Prop(definition, "description")
        version == Prop(definition, "version")
        author == Prop(definition, "author")
        tags == Prop(definition, "tags")
        OptionalString(x) == x = Undef \/ TypeOf(x) = "string"
    IN  IF Falsy(definition) \/ TypeOf(definition) # "object" THEN Thrown
        ELSE IF NotNonEmptyString(name) THEN ThrownAt("name")
        ELSE IF rings.t # "array" THEN ThrownAt("rings")
        ELSE IF Len(rings.v) = 0 THEN ThrownAt("rings")
        ELSE IF validateRings(rings.v) # Passed THEN validateRings(rings.v)
        ELSE IF ~OptionalString(description) THEN ThrownAt("description")
        ELSE IF version # Undef /\ TypeOf(version) # "string"
             THEN ThrownAt("version")
        ELSE IF version # Undef /\ ~MatchesVersion(version.v)
             THEN ThrownAt("version")
        ELSE IF ~OptionalString(author) THEN ThrownAt("author")
        ELSE IF tags # Undef /\ tags.t # "array" THEN ThrownAt("tags")
        ELSE IF /\ tags # Undef
                /\ \E i \in 1..Len(tags.v) : TypeOf(tags.v[i]) # "string"
             THEN ThrownAt("tags")
        ELSE Passed

(* a JSON text is either malformed or the text of one value; JSON.parse     *)
(* throws a SyntaxError on the first and returns the value of the second    *)
loadWheelDefinitionFromJSON(text) ==
    IF ~text.wellFormed THEN Thrown
    ELSE IF validateWheelDefinition(text.value) # Passed
         THEN validateWheelDefinition(text.value)
         ELSE Returned(text.value)

(* variant: the parsed value is registered before it is validated *)
registerWheelDefinitionFromJSONUnchecked(text, definitions) ==
    LET loaded == loadWheelDefinitionFromJSON(text)
        named == /\ text.wellFormed
                 /\ Prop(text.value, "name").t = "string"
    IN  [outcome |-> loaded,
         userDefinitions |->
             IF named
             THEN MapSet(definitions,
                      normalizeWheelName(Prop(text.value, "name").v),
                      text.value)
             ELSE definitions]

(* definitions is the registry's userDefinitions before the call; a throw   *)
(* of loadWheelDefinitionFromJSON ends the call before                      *)
(* registerWheelDefinition                                                  *)
registerWheelDefinitionFromJSON(text, definitions) ==
    LET loaded == loadWheelDefinitionFromJSON(text)
    IN  [outcome |-> loaded,
         userDefinitions |->
             IF loaded.kind = "return"
             THEN MapSet(definitions,
                      normalizeWheelName(Prop(loaded.value, "name").v),
                      loaded.value)
             ELSE definitions]

(* JSON.stringify of a wheel definition, as the value its text denotes: a   *)
(* property that is not set leaves nothing in the text                      *)
DataSourceToJson(dataSource) ==
    Obj([prop \in DOMAIN dataSource |->
            IF prop = "filter"
            THEN Obj([onlyMajor |-> Bool(dataSource.filter.onlyMajor)])
            ELSE Str(dataSource[prop])])

RingToJson(ring) ==
    Obj([slug |-> Str(ring.slug), type |-> Str(ring.type),
         label |-> Str(ring.label), orderIndex |-> Num(Q(ring.orderIndex)),
         radiusInner |-> Num(ring.radiusInner),
         radiusOuter |-> Num(ring.radiusOuter),
         dataSource |-> DataSourceToJson(ring.dataSource),
         displayOptions |-> Obj(NoProps)])

PropertyToJson(prop, value) ==
    CASE prop \in {"name", "description", "version", "author"} -> Str(value)
      [] prop = "tags" -> Arr([i \in 1..Len(value) |-> Str(value[i])])
      [] prop = "rings" ->
             Arr([i \in 1..Len(value) |-> RingToJson(value[i])])
      [] prop \in {"defaultVisualConfig", "defaultGlyphConfig"} ->
             Obj([key \in DOMAIN value |-> Num(Q(value[key]))])
      [] OTHER -> Obj(NoProps)

DefinitionToJson(definition) ==
    Obj([prop \in DOMAIN definition |->
            PropertyToJson(prop, definition[prop])])

(* pretty changes the white space of the text only *)
exportWheelDefinitionToJSON(definition, prettyPrint) ==
    [wellFormed |-> TRUE,
     indent |-> IF prettyPrint THEN 2 ELSE 0,
     value |-> DefinitionToJson(definition)]

-----------------------------------------------------------------------------
(* Versions and migration *)

(* Number(str) || 0 for a part of a version string *)
RECURSIVE NumberOr0(_)
NumberOr0(str) ==
    IF ~IsDigits(str) THEN 0
    ELSE LET last == CHOOSE k \in 1..Len(Digits) : Digits[k] = str[Len(str)]
         IN  IF Len(str) = 1 THEN last - 1
             ELSE 10 * NumberOr0(SubSeq(str, 1, Len(str) - 1)) + last - 1

(* the decimal digits of a number, as a template literal writes them *)
RECURSIVE NumberToString(_)
NumberToString(n) ==
    IF n < 10 THEN <<Digits[n + 1]>>
    ELSE NumberToString(n \div 10) \o <<Digits[(n % 10) + 1]>>

(* parts[i] || 0 *)
PartOr0(parts, i) == IF i <= Len(parts) THEN NumberOr0(parts[i]) ELSE 0

(* variant: only the major numbers are compared *)
compareVersionsMajorOnly(v1, v2) ==
    LET major1 == PartOr0(Split(v1, "."), 1)
        major2 == PartOr0(Split(v2, "."), 1)
    IN  IF major1 < major2 THEN -1 ELSE IF major1 > major2 THEN 1 ELSE 0

compareVersions(v1, v2) ==
    LET parts1 == Split(v1, ".")
        parts2 == Split(v2, ".")
        maxLength == IF Len(parts1) > Len(parts2) THEN Len(parts1)
                     ELSE Len(parts2)
        differing == {i \in 1..maxLength :
                         PartOr0(parts1, i) # PartOr0(parts2, i)}
    IN  IF differing = {} THEN 0
        ELSE LET first == CHOOSE i \in differing : \A j \in differing : i <= j
             IN  IF PartOr0(parts1, first) < PartOr0(parts2, first) THEN -1
                 ELSE 1

isValidVersion(version) == MatchesVersion(version)

(* the version with its patch number incremented; only versions of three    *)
(* numeric parts reach it                                                   *)
getNextVersion(version) ==
    LET parts == Split(version, ".")
    IN  NumberToString(NumberOr0(parts[1])) \o <<".">>
            \o NumberToString(NumberOr0(parts[2])) \o <<".">>
            \o NumberToString(NumberOr0(parts[3]) + 1)

(* `${fromVersion}->${toVersion}` *)
MigrationKey(fromVersion, toVersion) ==
    fromVersion \o <<"-", ">">> \o toVersion

(* a migration function either returns a changed definition or throws *)
MigrationFunctions == {"describe", "throw"}

CallMigration(migration, wheel) ==
    IF migration = "throw" THEN [kind |-> "throw"]
    ELSE Returned([wheel EXCEPT !.description = "migrated"])

(* for (const migration of migrationFunctions) current = migration(current) *)
RECURSIVE CallMigrations(_, _)
CallMigrations(functions, wheel) ==
    IF Len(functions) = 0 THEN Returned(wheel)
    ELSE LET first == CallMigration(Head(functions), wheel)
         IN  IF first.kind = "throw" THEN first
             ELSE CallMigrations(Tail(functions), first.value)

(* the functions of the list that get called: all up to the first that      *)
(* throws                                                                   *)
RECURSIVE CalledMigrations(_)
CalledMigrations(functions) ==
    IF Len(functions) = 0 THEN <<>>
    ELSE IF Head(functions) = "throw" THEN <<"throw">>
    ELSE <<Head(functions)>> \o CalledMigrations(Tail(functions))

(* { ...wheel, version } *)
WithVersion(wheel, version) ==
    [prop \in DOMAIN wheel \cup {"version"} |->
        IF prop = "version" THEN version ELSE wheel[prop]]

-----------------------------------------------------------------------------
(* Presets: visual and glyph configuration. A glyph is written as its code  *)
(* point.                                                                   *)

(* { ...a, ...b }: where both have a property, the one of b wins *)
Spread(a, b) ==
    [key \in DOMAIN a \cup DOMAIN b |->
        IF key \in DOMAIN b THEN b[key] ELSE a[key]]

(* ...obj?.prop: a missing property spreads nothing *)
SpreadOf(obj, prop) == IF Has(obj, prop) THEN obj[prop] ELSE NoProps

ZeroBased(list) == [i \in 0..(Len(list) - 1) |-> list[i + 1]]

defaultVisualConfig ==
    [ringWidth |-> 30,
     ringSpacing |-> 10,
     signColors |->
         <<"#FF6B6B", "#FFA07A", "#FFD700", "#98D8C8", "#FF6347", "#F0E68C",
           "#87CEEB", "#9370DB", "#FFA500", "#2F4F4F", "#00CED1", "#FF69B4">>,
     houseColors |->
         <<"#E8E8E8", "#D3D3D3", "#C0C0C0", "#A9A9A9", "#808080", "#696969",
           "#E8E8E8", "#D3D3D3", "#C0C0C0", "#A9A9A9", "#808080", "#696969">>,
     planetColors |->
         <<"#FFD700", "#C0C0C0", "#FF6347", "#FFA500", "#FF4500", "#FFD700",
           "#9370DB", "#00CED1", "#4169E1", "#8B4513">>,
     aspectColors |->
         [conjunction |-> "#FF0000",
          opposition |-> "#0000FF",
          trine |-> "#00FF00",
          square |-> "#FF0000",
          sextile |-> "#FFFF00",
          semisextile |-> "#FFA500",
          semisquare |-> "#FF6347",
          sesquiquadrate |-> "#FF6347",
          quincunx |-> "#9370DB"],
     aspectStrokeWidth |-> 2,
     backgroundColor |-> "#FFFFFF",
     strokeColor |-> "#000000",
     strokeWidth |-> 1]

(* variant: aspectColors is replaced as a whole, like any other property *)
mergeVisualConfigShallow(config) == Spread(defaultVisualConfig, config)

mergeVisualConfig(config) ==
    Spread(Spread(defaultVisualConfig, config),
           [aspectColors |->
               Spread(defaultVisualConfig.aspectColors,
                      SpreadOf(config, "aspectColors"))])

defaultGlyphConfig ==
    [signGlyphs |->
         ZeroBased(<<"U+2648", "U+2649", "U+264A", "U+264B", "U+264C",
                     "U+264D", "U+264E", "U+264F", "U+2650", "U+2651",
                     "U+2652", "U+2653">>),
     planetGlyphs |->
         ZeroBased(<<"U+2609", "U+263D", "U+263F", "U+2640", "U+2642",
                     "U+2643", "U+2644", "U+2645", "U+2646", "U+2647">>),
     aspectGlyphs |->
         [conjunction |-> "U+260C",
          opposition |-> "U+260D",
          trine |-> "U+25B3",
          square |-> "U+25A1",
          sextile |-> "U+26B9",
          semisextile |-> "U+26BA",
          semisquare |-> "U+2220",
          sesquiquadrate |-> "U+26BB",
          quincunx |-> "U+26BC"],
     glyphSize |-> 12,
     glyphFont |-> "Arial"]

mergeGlyphConfig(config) ==
    Spread(Spread(defaultGlyphConfig, config),
           [signGlyphs |->
               Spread(defaultGlyphConfig.signGlyphs,
                      SpreadOf(config, "signGlyphs")),
            planetGlyphs |->
               Spread(defaultGlyphConfig.planetGlyphs,
                      SpreadOf(config, "planetGlyphs")),
            aspectGlyphs |->
               Spread(defaultGlyphConfig.aspectGlyphs,
                      SpreadOf(config, "aspectGlyphs"))])

WheelNotFound == [kind |-> "throw", error |-> "Wheel definition not found"]

(* an omitted overrides argument is the object without properties: both     *)
(* spread nothing and have no property to read                              *)
createPresetFromWheel(name, presetName, visual, glyph) ==
    LET wheel == getWheelDefinition(name)
        wheelVisual == SpreadOf(wheel, "defaultVisualConfig")
        wheelGlyph == SpreadOf(wheel, "defaultGlyphConfig")
        Merged(from, over, prop) ==
            prop :> Spread(SpreadOf(from, prop), SpreadOf(over, prop))
        combinedVisualOverrides ==
            Spread(Spread(wheelVisual, visual),
                   Merged(wheelVisual, visual, "aspectColors"))
        combinedGlyphOverrides ==
            Spread(Spread(wheelGlyph, glyph),
                   Merged(wheelGlyph, glyph, "signGlyphs")
                   @@ Merged(wheelGlyph, glyph, "planetGlyphs")
                   @@ Merged(wheelGlyph, glyph, "aspectGlyphs"))
    IN  IF wheel = Undefined
        THEN WheelNotFound
        ELSE Returned([name |-> presetName,
                       wheel |-> wheel,
                       visualConfig |->
                           mergeVisualConfig(combinedVisualOverrides),
                       glyphConfig |->
                           mergeGlyphConfig(combinedGlyphOverrides)])

-----------------------------------------------------------------------------
(* Orientation rule engine, as section 4.5 of the specification describes   *)
(* it: the sources hold its types only. A chart snapshot is reduced to what *)
(* the triggers read: the house the ASC is in and the ids of the custom     *)
(* triggers whose caller-supplied predicate holds. Of the effects,          *)
(* setViewFrame and mirror are modelled.                                    *)

TriggerFires(trigger, previous, chart) ==
    CASE trigger.type = "ascLeavesHouse" ->
             /\ Has(previous, "ASC")
             /\ previous["ASC"] = trigger.house
             /\ chart.ascHouse # trigger.house
      [] trigger.type = "custom" -> trigger.id \in chart.custom
      [] OTHER -> FALSE

ApplyEffect(effect, frame) ==
    CASE effect.type = "setViewFrame" -> effect.viewFrame
      [] effect.type = "mirror" ->
             [frame EXCEPT !.angularFlip = ~frame.angularFlip]
      [] OTHER -> frame

(* steps 1 to 3 for one rule; state holds activeFrame, appliedRuleIds and   *)
(* effectLog                                                                *)
ApplyRule(rule, state, previous, chart, tick) ==
    IF TriggerFires(rule.trigger, previous, chart)
    THEN [activeFrame |-> ApplyEffect(rule.effect, state.activeFrame),
          appliedRuleIds |-> state.appliedRuleIds \cup {rule.id},
          effectLog |->
              Append(state.effectLog, [rule |-> rule.id, tick |-> tick])]
    ELSE state

(* variant: rules already in appliedRuleIds are evaluated again *)
RECURSIVE EvaluateRulesRepeating(_, _, _, _, _)
EvaluateRulesRepeating(rules, state, previous, chart, tick) ==
    IF Len(rules) = 0 THEN state
    ELSE EvaluateRulesRepeating(
             Tail(rules),
             ApplyRule(Head(rules), state, previous, chart, tick),
             previous, chart, tick)

(* variant: the rules are taken from the last to the first *)
RECURSIVE EvaluateRulesLastFirst(_, _, _, _, _)
EvaluateRulesLastFirst(rules, state, previous, chart, tick) ==
    IF Len(rules) = 0 THEN state
    ELSE LET rest == EvaluateRulesLastFirst(Tail(rules), state, previous,
                                            chart, tick)
         IN  IF Head(rules).id \in rest.appliedRuleIds THEN rest
             ELSE ApplyRule(Head(rules), rest, previous, chart, tick)

(* for every rule in program.rules not already in appliedRuleIds, in list   *)
(* order                                                                    *)
RECURSIVE EvaluateRules(_, _, _, _, _)
EvaluateRules(rules, state, previous, chart, tick) ==
    IF Len(rules) = 0 THEN state
    ELSE LET rule == Head(rules)
             next == IF rule.id \in state.appliedRuleIds THEN state
                     ELSE ApplyRule(rule, state, previous, chart, tick)
         IN  EvaluateRules(Tail(rules), next, previous, chart, tick)

(* step 4: previousHousePositions from the current snapshot *)
HousePositions(chart) == "ASC" :> chart.ascHouse

-----
(* Inputs *)

Turns == (-MaxTurns)..MaxTurns

WorldLongitudes ==
    {k * LonStep : k \in 0..((FullCircle - 1) \div LonStep)}
        \cup {95, 105, 185, 275, 359, -85, 455}

AnchorLongitudes == {a + FullCircle * t : a \in {0, 95, 275}, t \in Turns}

ScreenAngles == {s + FullCircle * t : s \in {0, 90, 180}, t \in Turns}

Scales == {Rat(1, den) : den \in 1..MaxDen} \cup {Q(2), Q(3)}

AscAnchor == [kind |-> "angle", type |-> "ASC"]

(* the ways of setting, or not setting, one optional property *)
Optional(prop, values) == {NoProps} \cup {prop :> v : v \in values}

(* frames of the anchor-relative model: the required properties and the two *)
(* flips; a frame with only one of worldZero and screenZero is one of them  *)
AnchorFrames ==
    {[referenceFrame |-> "houses", anchor |-> AscAnchor,
      screenAngleDeg |-> s, direction |-> d] @@ af @@ rf @@ wz :
        s \in ScreenAngles, d \in {"cw", "ccw"},
        af \in Optional("angularFlip", BOOLEAN),
        rf \in Optional("radialFlip", {TRUE}),
        wz \in Optional("worldZero", {95})}

(* frames of the zero-point model *)
ZeroPointFrames ==
    {[referenceFrame |-> "houses", anchor |-> AscAnchor,
      screenAngleDeg |-> 180, worldZero |-> wz, screenZero |-> sz]
        @@ d @@ sc :
        wz \in {0, 95, 275}, sz \in {0, 90, 270, -90, 450},
        d \in Optional("direction", {"1", "-1", "ccw"}),
        sc \in Optional("scale", Scales)}

ViewFrames == AnchorFrames \cup ZeroPointFrames

(* the ViewFrame type of the anchor-only utilities *)
IsAnchorOnlyFrame(frame) ==
    /\ ~Has(frame, "worldZero") /\ ~Has(frame, "screenZero")
    /\ ~Has(frame, "scale")
    /\ frame.direction \in {"cw", "ccw"}

DegreeInputs ==
    {Rat(k, den) : k \in (-MaxDeg)..MaxDeg, den \in 1..MaxDen}

-----------------------------------------------------------------------------
(* frames for comparing keys: the properties the key reads, with the       *)
(* zero-point properties on the frames whose direction is a number          *)
KeyAnchors == {AscAnchor, [kind |-> "house", index |-> 10]}

ZeroPointSettings ==
    {[worldZero |-> 0, screenZero |-> 90],
     [worldZero |-> 95, screenZero |-> 90],
     [worldZero |-> 0, screenZero |-> 90, scale |-> Q(2)]}

KeyFrames ==
    {[referenceFrame |-> "houses", anchor |-> a,
      screenAngleDeg |-> s, direction |-> d] @@ af @@ rf :
        a \in KeyAnchors, s \in {90, 180}, d \in {"cw", "ccw"},
        af \in Optional("angularFlip", {TRUE}),
        rf \in Optional("radialFlip", {TRUE})}
    \cup
    {[referenceFrame |-> "houses", anchor |-> a,
      screenAngleDeg |-> s, direction |-> d] @@ af @@ rf @@ zp :
        a \in KeyAnchors, s \in {90, 180}, d \in {"1", "-1"},
        af \in Optional("angularFlip", {TRUE}),
        rf \in Optional("radialFlip", {TRUE}),
        zp \in ZeroPointSettings}

KeyLongitudes == {95, 185, 275}

KeyAnchorLongitudes == {0, 95}

(* partial frames: every property set or omitted *)
PartialFrames ==
    {ref @@ a @@ s @@ d @@ rf @@ af @@ wz @@ sz :
        ref \in Optional("referenceFrame", {"houses", "signs"}),
        a \in Optional("anchor", {[kind |-> "angle", type |-> "MC"],
                                  [kind |-> "house", index |-> 10]}),
        s \in Optional("screenAngleDeg", {0, 90}),
        d \in Optional("direction", {"cw", "ccw", "-1"}),
        rf \in Optional("radialFlip", BOOLEAN),
        af \in Optional("angularFlip", BOOLEAN),
        wz \in Optional("worldZero", {95}),
        sz \in Optional("screenZero", {90})}

(* lock rules and elements *)
HouseNumbers == 1..12

SignNumbers == 0..11

AngleTypes == {"ASC", "DESC", "MC", "IC"}

ObjectIds == {"chiron", "north_node", "vertex"}

ElementKinds == {"object", "house", "sign", "angle"}

ElementIds(kind) ==
    CASE kind = "object" -> ObjectIds
      [] kind = "house" -> HouseNumbers
      [] kind = "sign" -> SignNumbers
      [] kind = "angle" -> AngleTypes

Lists(ids) == UNION {[1..len -> ids] : len \in 0..MaxListLen}

LockSubjects ==
    {[kind |-> "object", ids |-> l] : l \in Lists(ObjectIds)}
        \cup {[kind |-> "house"] @@ l :
                 l \in Optional("indices", Lists(HouseNumbers))}
        \cup {[kind |-> "sign"] @@ l :
                 l \in Optional("indices", Lists(SignNumbers))}
        \cup {[kind |-> "angle"] @@ l :
                 l \in Optional("types", Lists(AngleTypes))}

LockRules ==
    {[subject |-> sub, frame |-> "houses", mode |-> "follow-anchor"] :
        sub \in LockSubjects}

(* names and definitions given to the registry *)
LowerStandardName ==
    <<"s", "t", "a", "n", "d", "a", "r", "d", " ", "n", "a", "t", "a", "l",
      " ", "w", "h", "e", "e", "l">>

SpacedStandardName ==
    <<"s", "t", "a", "n", "d", "a", "r", "d", " ", "\t", "n", "a", "t", "a",
      "l", " ", " ", "w", "h", "e", "e", "l">>

CaseTestName == <<"C", "a", "s", "e", " ", "T", "e", "s", "t">>

UpperCaseTestName == <<"C", "A", "S", "E", " ", "T", "E", "S", "T">>

HyphenCaseTestName == <<"c", "a", "s", "e", "-", "t", "e", "s", "t">>

MissingName == <<"M", "i", "s", "s", "i", "n", "g">>

RegisterDefinitions ==
    {[name |-> StandardNatalName, description |-> "user standard"],
     [name |-> SpacedStandardName, description |-> "user spaced"],
     [name |-> CaseTestName, description |-> "first"],
     [name |-> CaseTestName, description |-> "second"],
     [name |-> UpperCaseTestName, description |-> "upper"]}

LookupNames ==
    {StandardNatalName, LowerStandardName, VedicNatalName, CaseTestName,
     HyphenCaseTestName, MissingName}

(* JSON texts given to the loader *)
BaseRing ==
    Obj([slug |-> Str("ring_signs"), type |-> Str("signs"),
         label |-> Str("Zodiac Signs"), orderIndex |-> Num(Q(0)),
         radiusInner |-> Num(Rat(85, 100)), radiusOuter |-> Num(Q(1)),
         dataSource |-> Obj([kind |-> Str("static_zodiac")])])

DataSources ==
    {Obj([kind |-> Str("static_zodiac")]),
     Obj([kind |-> Str("layer_houses"), layerId |-> Str("natal")]),
     Obj([kind |-> Str("layer_planets")]),
     Obj([kind |-> Str("aspect_set")]),
     Obj([kind |-> Str("static_nakshatras")])}

InnerRadii == {Num(Rat(k, 10)) : k \in {-1, 0, 5, 9, 10}} \cup {Str("0.9")}

OuterRadii == {Num(Rat(k, 10)) : k \in {5, 10, 11}}

Rings ==
    {Obj(slug @@ ("type" :> type) @@ ("radiusInner" :> inner)
             @@ ("radiusOuter" :> outer) @@ source
             @@ [label |-> Str("Zodiac Signs"), orderIndex |-> Num(Q(0))]) :
        slug \in Optional("slug", {Str("ring_signs"), Str("")}),
        type \in {Str("signs"), Str("bogus")},
        inner \in InnerRadii, outer \in OuterRadii,
        source \in Optional("dataSource", DataSources)}
    \cup {Null, Arr(<<>>),
          Obj([k \in DOMAIN BaseRing.v \ {"label"} |-> BaseRing.v[k]]),
          Obj([BaseRing.v EXCEPT !.orderIndex = Str("0")]),
          Obj([BaseRing.v EXCEPT !.radiusInner = Num(Rat(9, 10)),
                                 !.radiusOuter = Num(Rat(5, 10)),
                                 !.orderIndex = Null])}

(* ring lists in which one ring varies and the others are valid *)
RingLists ==
    {<<>>} \cup UNION {
        {[i \in 1..len |-> IF i = at THEN ring ELSE BaseRing] :
            at \in 1..len, ring \in Rings} : len \in 1..MaxRings}

VersionStrings ==
    {<<"1", ".", "0", ".", "0">>, <<"1", ".", "0">>,
     <<"1", ".", "x", ".", "0">>, <<"1", "0", ".", "2", ".", "3", "3">>}

DefinitionProps ==
    {NoProps, [name |-> Str(<<>>)], [name |-> Str(CaseTestName)],
     [name |-> Str(CaseTestName), description |-> Num(Q(1))],
     [name |-> Str(CaseTestName), author |-> Null],
     [name |-> Str(CaseTestName), version |-> Num(Q(1))],
     [name |-> Str(CaseTestName), tags |-> Str("natal")],
     [name |-> Str(CaseTestName), tags |-> Arr(<<Str("natal"), Num(Q(1))>>)],
     [name |-> Str(CaseTestName), tags |-> Arr(<<Str("natal")>>),
      description |-> Str("a test wheel"), author |-> Str("tester")]}
    \cup {[name |-> Str(CaseTestName), version |-> Str(version)] :
             version \in VersionStrings}

JsonValues ==
    {Obj(props @@ [rings |-> Arr(rings)]) :
        props \in DefinitionProps, rings \in RingLists}
    \cup {Null, Str(CaseTestName), Obj([name |-> Str(CaseTestName)]),
          Obj([name |-> Str(CaseTestName), rings |-> BaseRing])}

(* the registry before the call: empty, or holding a definition loaded      *)
(* earlier under the name the texts use, in another case                    *)
EarlierDefinition ==
    Obj([name |-> Str(UpperCaseTestName), rings |-> Arr(<<BaseRing>>)])

LoaderRegistries ==
    {<<>>,
     MapSet(<<>>, normalizeWheelName(UpperCaseTestName), EarlierDefinition)}

JsonTexts ==
    {[wellFormed |-> FALSE]}
        \cup {[wellFormed |-> TRUE, value |-> value] : value \in JsonValues}

(* versions, definitions and migrations given to migrateWheelDefinition *)
Version(major, minor, patch) ==
    <<Digits[major + 1], ".", Digits[minor + 1], ".", Digits[patch + 1]>>

SourceVersions ==
    {Version(1, 0, 0), Version(1, 0, 1), Version(1, 0, 2), Version(1, 1, 0),
     <<"1", ".", "0">>, <<>>}

TargetVersions ==
    {Version(1, 0, 0), Version(1, 0, 1), Version(1, 0, 2), Version(1, 1, 0),
     Version(0, 9, 9), <<"1", ".", "x", ".", "0">>}

MigrationDefinitions ==
    {[name |-> CaseTestName, description |-> "original"] @@ version :
        version \in Optional("version", SourceVersions)}

MigrationSteps ==
    {<<Version(1, 0, 0), Version(1, 0, 1)>>,
     <<Version(1, 0, 1), Version(1, 0, 2)>>,
     <<Version(1, 0, 2), Version(1, 0, 0)>>}

-----------------------------------------------------------------------------
(* Configurations given to createPresetFromWheel, by the wheel and by the   *)
(* caller: partial, with aspects and glyph indices the package defaults     *)
(* know and one they do not know                                            *)
WheelColor == "#AA0000"
OverrideColor == "#00BB00"
WheelGlyph == "U+2605"
OverrideGlyph == "U+2606"

AspectColorMaps(color) ==
    {[conjunction |-> color],
     [opposition |-> color],
     [conjunction |-> color, opposition |-> color],
     [quintile |-> color]}

VisualConfigs(color) ==
    {background @@ aspects :
        background \in Optional("backgroundColor", {color}),
        aspects \in Optional("aspectColors", AspectColorMaps(color))}

GlyphMaps(glyph) ==
    {NoProps,
     [planetGlyphs |-> 0 :> glyph],
     [aspectGlyphs |-> [conjunction |-> glyph]]}

GlyphConfigs(glyph, size) ==
    {glyphSize @@ signs @@ others :
        glyphSize \in Optional("glyphSize", {size}),
        signs \in Optional("signGlyphs", {0 :> glyph, 12 :> glyph}),
        others \in GlyphMaps(glyph)}

PresetWheels ==
    {[name |-> CaseTestName, description |-> "wheel with defaults"]
     @@ visual @@ glyph :
        visual \in Optional("defaultVisualConfig", VisualConfigs(WheelColor)),
        glyph \in Optional("defaultGlyphConfig",
                           GlyphConfigs(WheelGlyph, 16))}

PresetWheelNames == {UpperCaseTestName, StandardNatalName, MissingName}

PresetName == "Custom Preset"

-----------------------------------------------------------------------------
(* Orientation programs and chart snapshots *)
BaseFrame == normalizeViewFrame(NoProps)

RuleFrames ==
    <<normalizeViewFrame([screenAngleDeg |-> 90]),
      normalizeViewFrame([screenAngleDeg |-> 0, direction |-> "cw"])>>

Rules ==
    {[id |-> "noon", trigger |-> [type |-> "custom", id |-> "daylight"],
      effect |-> [type |-> "setViewFrame", viewFrame |-> RuleFrames[1]]],
     [id |-> "day", trigger |-> [type |-> "custom", id |-> "daylight"],
      effect |-> [type |-> "setViewFrame", viewFrame |-> RuleFrames[2]]],
     [id |-> "rise", trigger |-> [type |-> "ascLeavesHouse", house |-> 1],
      effect |-> [type |-> "setViewFrame", viewFrame |-> RuleFrames[2]]],
     [id |-> "flip", trigger |-> [type |-> "ascLeavesHouse", house |-> 1],
      effect |-> [type |-> "mirror", wheel |-> "all"]]}

(* lists of rules with distinct ids *)
RuleLists ==
    {list \in UNION {[1..n -> Rules] : n \in 0..MaxRules} :
        \A i, j \in 1..Len(list) : list[i].id = list[j].id => i = j}

Programs == {[baseFrame |-> BaseFrame, rules |-> list] : list \in RuleLists}

Snapshots ==
    {[ascHouse |-> house, custom |-> ids] :
        house \in 1..2, ids \in SUBSET {"daylight"}}

-----------------------------------------------------------------------------
(* Definitions given to exportWheelDefinitionToJSON: the built-in wheels,   *)
(* and each of them with the data source of one ring replaced by a data     *)
(* source of any kind of the RingDataSource type                            *)
BuiltInWheels ==
    {standardNatal, vedicNatal, biWheelNatalTransit, biWheelSynastry,
     complexNatal, simpleNatal}

RingDataSources ==
    {[kind |-> "static_zodiac"],
     [kind |-> "static_nakshatras"],
     [kind |-> "layer_houses", layerId |-> "natal"],
     [kind |-> "layer_planets", layerId |-> "natal"],
     [kind |-> "layer_varga_planets", layerId |-> "natal", vargaId |-> "d9"],
     [kind |-> "aspect_set", aspectSetId |-> "natal_major"]}

ExportDefinitions ==
    BuiltInWheels \cup
    {[wheel EXCEPT !.rings[at].dataSource = dataSource] :
        wheel \in BuiltInWheels,
        at \in 1..3, dataSource \in RingDataSources}

-----
(* Values of the variables a specification does not use *)

KeyIdle ==
    /\ otherFrame = NoProps /\ frameKey = "" /\ otherKey = ""
    /\ otherScreen = NaN /\ keyOutcome = NoProps

RegistryIdle ==
    /\ userDefinitions = <<>> /\ history = <<>>
    /\ call = [op |-> "none"]
    /\ found = Undefined /\ removed = FALSE /\ listed = <<>>

LoaderIdle ==
    /\ json = [wellFormed |-> FALSE] /\ outcome = Passed
    /\ exportDefinition = NoProps /\ pretty = TRUE

MigrationIdle ==
    /\ migrations = <<>> /\ sourceDefinition = NoProps
    /\ targetVersion = <<>>
    /\ current = NoProps /\ currentVersion = <<>> /\ errors = <<>>
    /\ result = NoProps /\ applied = <<>>

PresetIdle ==
    /\ wheelName = <<>> /\ nameOfPreset = ""
    /\ visualOverrides = NoProps
    /\ glyphOverrides = NoProps /\ preset = Passed

WheelIdle == RegistryIdle /\ LoaderIdle /\ MigrationIdle /\ PresetIdle

FrameIdle ==
    /\ partialFrame = NoProps /\ normalFrame = NoProps
    /\ renormalFrame = NoProps

LockIdle ==
    /\ lockRule = NoProps /\ elementType = "" /\ elementId = 0
    /\ applies = FALSE

-----
(* Transform specification: one call of worldToScreenAngle followed by one  *)
(* call of screenToWorldLongitude on its result, in both versions of the    *)
(* utilities                                                                *)

AngleIdle ==
    /\ degrees = NaN /\ normalized = NaN /\ renormalized = NaN

TransformIdle ==
    /\ worldLongitude = 0 /\ anchorLongitude = 0
    /\ viewFrame = NoProps
    /\ screenAngle = NaN /\ worldBack = NaN
    /\ legacyScreen = NaN /\ legacyBack = NaN

RuleIdle ==
    /\ program = NoProps /\ appliedRuleIds = {}
    /\ previousHousePositions = NoProps /\ activeFrame = NoProps
    /\ snapshot = NoProps /\ effectLog = <<>> /\ ticks = 0

OrientationIdle ==
    /\ TransformIdle /\ AngleIdle /\ KeyIdle /\ FrameIdle /\ LockIdle
    /\ RuleIdle

InitTransform ==
    /\ pc = "input"
    /\ worldLongitude \in WorldLongitudes
    /\ anchorLongitude \in AnchorLongitudes
    /\ viewFrame \in ViewFrames
    /\ screenAngle = NaN /\ worldBack = NaN
    /\ legacyScreen = NaN /\ legacyBack = NaN
    /\ AngleIdle /\ KeyIdle /\ FrameIdle /\ LockIdle
    /\ RuleIdle /\ WheelIdle

WorldToScreen ==
    /\ pc = "input"
    /\ screenAngle' = worldToScreenAngle(Q(worldLongitude), viewFrame,
                                         Q(anchorLongitude))
    /\ pc' = "screen"
    /\ UNCHANGED <<worldLongitude, anchorLongitude, viewFrame, worldBack,
                   legacyScreen, legacyBack>>
    /\ UNCHANGED <<angleVars, keyVars, frameVars, lockVars,
                   ruleVars, wheelVars>>

ScreenToWorld ==
    /\ pc = "screen"
    /\ worldBack' = screenToWorldLongitude(screenAngle, viewFrame,
                                           Q(anchorLongitude))
    /\ pc' = "world"
    /\ UNCHANGED <<worldLongitude, anchorLongitude, viewFrame, screenAngle,
                   legacyScreen, legacyBack>>
    /\ UNCHANGED <<angleVars, keyVars, frameVars, lockVars,
                   ruleVars, wheelVars>>

LegacyWorldToScreen ==
    /\ pc = "world"
    /\ IsAnchorOnlyFrame(viewFrame)
    /\ legacyScreen' = legacyWorldToScreenAngle(Q(worldLongitude), viewFrame,
                                                Q(anchorLongitude))
    /\ pc' = "legacyScreen"
    /\ UNCHANGED <<worldLongitude, anchorLongitude, viewFrame, screenAngle,
                   worldBack, legacyBack>>
    /\ UNCHANGED <<angleVars, keyVars, frameVars, lockVars,
                   ruleVars, wheelVars>>

LegacyScreenToWorld ==
    /\ pc = "legacyScreen"
    /\ legacyBack' = legacyScreenToWorldLongitude(legacyScreen, viewFrame,
                                                  Q(anchorLongitude))
    /\ pc' = "legacyWorld"
    /\ UNCHANGED <<worldLongitude, anchorLongitude, viewFrame, screenAngle,
                   worldBack, legacyScreen>>
    /\ UNCHANGED <<angleVars, keyVars, frameVars, lockVars,
                   ruleVars, wheelVars>>

NextTransform ==
    \/ WorldToScreen
    \/ ScreenToWorld
    \/ LegacyWorldToScreen
    \/ LegacyScreenToWorld

SpecTransform == InitTransform /\ [][NextTransform]_vars

-----------------------------------------------------------------------------
(* Normalisation specification: normalizeDeg applied once and then again    *)

InitNormalize ==
    /\ pc = "input"
    /\ degrees \in DegreeInputs
    /\ normalized = NaN /\ renormalized = NaN
    /\ TransformIdle /\ KeyIdle /\ FrameIdle /\ LockIdle
    /\ RuleIdle /\ WheelIdle

Normalize ==
    /\ pc = "input"
    /\ normalized' = normalizeDeg(degrees)
    /\ pc' = "normalized"
    /\ UNCHANGED <<degrees, renormalized>>
    /\ UNCHANGED <<transformVars, keyVars, frameVars, lockVars,
                   ruleVars, wheelVars>>

NormalizeAgain ==
    /\ pc = "normalized"
    /\ renormalized' = normalizeDeg(normalized)
    /\ pc' = "renormalized"
    /\ UNCHANGED <<degrees, normalized>>
    /\ UNCHANGED <<transformVars, keyVars, frameVars, lockVars,
                   ruleVars, wheelVars>>

NextNormalize ==
    \/ Normalize
    \/ NormalizeAgain

SpecNormalize == InitNormalize /\ [][NextNormalize]_vars

-----------------------------------------------------------------------------
(* Key specification: the keys of two frames, then the screen angle of one  *)
(* longitude under each of them                                             *)

InitKey ==
    /\ pc = "input"
    /\ viewFrame \in KeyFrames
    /\ otherFrame \in KeyFrames
    /\ worldLongitude \in KeyLongitudes
    /\ anchorLongitude \in KeyAnchorLongitudes
    /\ frameKey = "" /\ otherKey = ""
    /\ screenAngle = NaN /\ otherScreen = NaN /\ keyOutcome = NoProps
    /\ worldBack = NaN /\ legacyScreen = NaN /\ legacyBack = NaN
    /\ AngleIdle /\ FrameIdle /\ LockIdle
    /\ RuleIdle /\ WheelIdle

FrameKeys ==
    /\ pc = "input"
    /\ frameKey' = viewFrameToKey(viewFrame)
    /\ otherKey' = viewFrameToKey(otherFrame)
    /\ pc' = "keys"
    /\ UNCHANGED <<otherFrame, otherScreen, keyOutcome>>
    /\ UNCHANGED <<transformVars, angleVars, frameVars, lockVars,
                   ruleVars, wheelVars>>

TransformBoth ==
    /\ pc = "keys"
    /\ screenAngle' = worldToScreenAngle(Q(worldLongitude), viewFrame,
                                         Q(anchorLongitude))
    /\ otherScreen' = worldToScreenAngle(Q(worldLongitude), otherFrame,
                                         Q(anchorLongitude))
    /\ pc' = "compared"
    /\ UNCHANGED <<worldLongitude, anchorLongitude, viewFrame, worldBack,
                   legacyScreen, legacyBack>>
    /\ UNCHANGED <<otherFrame, frameKey, otherKey, keyOutcome>>
    /\ UNCHANGED <<angleVars, frameVars, lockVars,
                   ruleVars, wheelVars>>

NextKey ==
    \/ FrameKeys
    \/ TransformBoth

SpecKey == InitKey /\ [][NextKey]_vars

-----------------------------------------------------------------------------
(* The predefined orientation presets.  Of a preset the transforms and the  *)
(* key read the frame only; names, descriptions and locks are left out.     *)
(* The numeric direction -1 is written "-1", the object id 0 is written as  *)
(* String(id) gives it.                                                     *)

PresetFrame(referenceFrame, anchor, screenAngleDeg) ==
    [referenceFrame |-> referenceFrame, anchor |-> anchor,
     screenAngleDeg |-> screenAngleDeg, direction |-> "ccw"]

presetAscLeft ==
    [id |-> "asc-left",
     frame |-> PresetFrame("houses", [kind |-> "angle", type |-> "ASC"], 180)]

presetAscRight ==
    [id |-> "asc-right",
     frame |-> PresetFrame("houses", [kind |-> "angle", type |-> "ASC"], 0)]

presetMcTop ==
    [id |-> "mc-top",
     frame |-> PresetFrame("houses", [kind |-> "angle", type |-> "MC"], 90)]

presetMcTopMirrored ==
    [id |-> "mc-top-mirrored",
     frame |-> [referenceFrame |-> "houses",
                anchor |-> [kind |-> "angle", type |-> "MC"],
                screenZero |-> 90,
                direction |-> "-1"]]

presetAriesTop ==
    [id |-> "aries-top",
     frame |-> PresetFrame("signs", [kind |-> "sign", index |-> 0], 90)]

presetFixedHouses ==
    [id |-> "fixed-houses",
     frame |-> PresetFrame("houses", [kind |-> "house", index |-> 1], 180)]

presetFixedSigns ==
    [id |-> "fixed-signs",
     frame |-> PresetFrame("signs", [kind |-> "sign", index |-> 0], 90)]

presetSunLocked ==
    [id |-> "sun-locked",
     frame |-> PresetFrame("ecliptic", [kind |-> "object", id |-> "0"], 90)]

presetBiwheelNatalTransit ==
    [id |-> "biwheel-natal-transit",
     frame |-> PresetFrame("houses", [kind |-> "angle", type |-> "ASC"], 180)]

allPresets ==
    <<presetAscLeft, presetAscRight, presetMcTop, presetMcTopMirrored,
      presetAriesTop, presetFixedHouses, presetFixedSigns, presetSunLocked,
      presetBiwheelNatalTransit>>

(* a call of viewFrameToKey: frame.screenAngleDeg.toString() throws a       *)
(* TypeError when screenAngleDeg is not set                                 *)
CallViewFrameToKey(frame) ==
    IF Has(frame, "screenAngleDeg")
    THEN [kind |-> "return", value |-> viewFrameToKey(frame)]
    ELSE [kind |-> "throw", error |-> "TypeError"]

-----------------------------------------------------------------------------
(* Orientation preset specification: the screen angle of a longitude under  *)
(* the frame of a predefined preset, then the key of that frame             *)

InitOrientationPreset ==
    /\ pc = "input"
    /\ viewFrame \in {allPresets[i].frame : i \in 1..Len(allPresets)}
    /\ worldLongitude \in WorldLongitudes
    /\ anchorLongitude \in KeyAnchorLongitudes
    /\ screenAngle = NaN /\ worldBack = NaN
    /\ legacyScreen = NaN /\ legacyBack = NaN
    /\ AngleIdle /\ KeyIdle /\ FrameIdle /\ LockIdle
    /\ RuleIdle /\ WheelIdle

PresetWorldToScreen ==
    /\ pc = "input"
    /\ screenAngle' = worldToScreenAngle(Q(worldLongitude), viewFrame,
                                         Q(anchorLongitude))
    /\ pc' = "screen"
    /\ UNCHANGED <<worldLongitude, anchorLongitude, viewFrame, worldBack,
                   legacyScreen, legacyBack>>
    /\ UNCHANGED <<angleVars, keyVars, frameVars, lockVars,
                   ruleVars, wheelVars>>

PresetFrameKey ==
    /\ pc = "screen"
    /\ keyOutcome' = CallViewFrameToKey(viewFrame)
    /\ pc' = "key"
    /\ UNCHANGED <<otherFrame, frameKey, otherKey, otherScreen>>
    /\ UNCHANGED <<transformVars, angleVars, frameVars, lockVars,
                   ruleVars, wheelVars>>

NextOrientationPreset ==
    \/ PresetWorldToScreen
    \/ PresetFrameKey

SpecOrientationPreset ==
    InitOrientationPreset /\ [][NextOrientationPreset]_vars

-----------------------------------------------------------------------------
(* Frame specification: normalizeViewFrame applied once and then again      *)

InitFrame ==
    /\ pc = "input"
    /\ partialFrame \in PartialFrames
    /\ normalFrame = NoProps /\ renormalFrame = NoProps
    /\ TransformIdle /\ AngleIdle /\ KeyIdle /\ LockIdle
    /\ RuleIdle /\ WheelIdle

NormalizeFrame ==
    /\ pc = "input"
    /\ normalFrame' = normalizeViewFrame(partialFrame)
    /\ pc' = "normalized"
    /\ UNCHANGED <<partialFrame, renormalFrame>>
    /\ UNCHANGED <<transformVars, angleVars, keyVars, lockVars,
                   ruleVars, wheelVars>>

NormalizeFrameAgain ==
    /\ pc = "normalized"
    /\ renormalFrame' = normalizeViewFrame(normalFrame)
    /\ pc' = "renormalized"
    /\ UNCHANGED <<partialFrame, normalFrame>>
    /\ UNCHANGED <<transformVars, angleVars, keyVars, lockVars,
                   ruleVars, wheelVars>>

NextFrame ==
    \/ NormalizeFrame
    \/ NormalizeFrameAgain

SpecFrame == InitFrame /\ [][NextFrame]_vars

-----------------------------------------------------------------------------
(* Lock specification: one call of lockRuleApplies                          *)

InitLock ==
    /\ pc = "input"
    /\ lockRule \in LockRules
    /\ elementType \in ElementKinds
    /\ elementId \in ElementIds(elementType)
    /\ applies = FALSE
    /\ TransformIdle /\ AngleIdle /\ KeyIdle /\ FrameIdle
    /\ RuleIdle /\ WheelIdle

ApplyLock ==
    /\ pc = "input"
    /\ applies' = lockRuleApplies(lockRule, elementType, elementId)
    /\ pc' = "matched"
    /\ UNCHANGED <<lockRule, elementType, elementId>>
    /\ UNCHANGED <<transformVars, angleVars, keyVars, frameVars,
                   ruleVars, wheelVars>>

NextLock == ApplyLock

SpecLock == InitLock /\ [][NextLock]_vars

-----------------------------------------------------------------------------
(* Registry specification: any sequence of at most MaxOps register and      *)
(* unregister calls, with lookups and listings in between                   *)

InitRegistry ==
    /\ pc = "input"
    /\ OrientationIdle
    /\ RegistryIdle /\ LoaderIdle /\ MigrationIdle /\ PresetIdle

RegisterWheelDefinition ==
    \E definition \in RegisterDefinitions :
        /\ Len(history) < MaxOps
        /\ userDefinitions' = MapSet(userDefinitions,
                                  normalizeWheelName(definition.name),
                                  definition)
        /\ call' = [op |-> "register", definition |-> definition]
        /\ history' = Append(history, call')
        /\ found' = Undefined /\ removed' = FALSE /\ listed' = <<>>
        /\ UNCHANGED <<pc, orientationVars, loaderVars, migrationVars,
                       presetVars>>

UnregisterWheelDefinition ==
    \E name \in LookupNames :
        /\ Len(history) < MaxOps
        /\ removed' = MapHas(userDefinitions, normalizeWheelName(name))
        /\ userDefinitions' = MapDelete(userDefinitions,
                                        normalizeWheelName(name))
        /\ call' = [op |-> "unregister", name |-> name]
        /\ history' = Append(history, call')
        /\ found' = Undefined /\ listed' = <<>>
        /\ UNCHANGED <<pc, orientationVars, loaderVars, migrationVars,
                       presetVars>>

GetWheelDefinition ==
    \E name \in LookupNames :
        /\ found' = getWheelDefinition(name)
        /\ call' = [op |-> "get", name |-> name]
        /\ removed' = FALSE /\ listed' = <<>>
        /\ UNCHANGED <<userDefinitions, history>>
        /\ UNCHANGED <<pc, orientationVars, loaderVars, migrationVars,
                       presetVars>>

ListWheelDefinitions ==
    /\ listed' = listWheelDefinitions
    /\ call' = [op |-> "list"]
    /\ found' = Undefined /\ removed' = FALSE
    /\ UNCHANGED <<userDefinitions, history>>
    /\ UNCHANGED <<pc, orientationVars, loaderVars, migrationVars,
                       presetVars>>

NextRegistry ==
    \/ RegisterWheelDefinition
    \/ UnregisterWheelDefinition
    \/ GetWheelDefinition
    \/ ListWheelDefinitions

SpecRegistry == InitRegistry /\ [][NextRegistry]_vars

-----------------------------------------------------------------------------
(* Loader specification: one call of loadWheelDefinitionFromJSON or of      *)
(* registerWheelDefinitionFromJSON on a JSON text                           *)

InitLoader ==
    /\ pc = "input"
    /\ json \in JsonTexts
    /\ exportDefinition = NoProps /\ pretty = TRUE
    /\ outcome = Passed
    /\ userDefinitions \in LoaderRegistries
    /\ history = <<>> /\ call = [op |-> "none"] /\ found = Undefined
    /\ removed = FALSE /\ listed = <<>>
    /\ OrientationIdle /\ MigrationIdle /\ PresetIdle

LoadWheelDefinitionFromJSON ==
    /\ pc = "input"
    /\ outcome' = loadWheelDefinitionFromJSON(json)
    /\ pc' = "loaded"
    /\ UNCHANGED <<json, exportDefinition, pretty>>
    /\ UNCHANGED <<orientationVars, registryVars, migrationVars,
                   presetVars>>

RegisterWheelDefinitionFromJSON ==
    /\ pc = "input"
    /\ LET done == registerWheelDefinitionFromJSON(json, userDefinitions)
       IN  /\ outcome' = done.outcome
           /\ userDefinitions' = done.userDefinitions
    /\ pc' = "registered"
    /\ UNCHANGED <<json, exportDefinition, pretty>>
    /\ UNCHANGED <<orientationVars, migrationVars, presetVars>>
    /\ UNCHANGED <<history, call, found, removed, listed>>

NextLoader ==
    \/ LoadWheelDefinitionFromJSON
    \/ RegisterWheelDefinitionFromJSON

SpecLoader == InitLoader /\ [][NextLoader]_vars

-----------------------------------------------------------------------------
(* Migration specification: migration functions are registered, then one    *)
(* call of migrateWheelDefinition runs its checks and its loop, one         *)
(* iteration per step                                                       *)

InitMigration ==
    /\ pc = "input"
    /\ sourceDefinition \in MigrationDefinitions
    /\ targetVersion \in TargetVersions
    /\ migrations = <<>>
    /\ current = NoProps /\ currentVersion = <<>> /\ errors = <<>>
    /\ result = NoProps /\ applied = <<>>
    /\ OrientationIdle
    /\ RegistryIdle /\ LoaderIdle /\ PresetIdle

RegisterMigration ==
    \E step \in MigrationSteps, migration \in MigrationFunctions :
        LET key == MigrationKey(step[1], step[2])
            registered == IF MapHas(migrations, key)
                          THEN MapGet(migrations, key) ELSE <<>>
        IN  /\ pc = "input"
            /\ Len(migrations) < MaxMigrations
            /\ Len(registered) < MaxMigrations
            /\ migrations' = MapSet(migrations, key,
                                    Append(registered, migration))
            /\ UNCHANGED <<sourceDefinition, targetVersion, current,
                           currentVersion, errors, result, applied>>
            /\ UNCHANGED <<pc, orientationVars, registryVars, loaderVars,
                           presetVars>>

(* the checks before the loop *)
MigrateStart ==
    /\ pc = "input"
    /\ IF ~Has(sourceDefinition, "version") \/ Len(sourceDefinition.version) = 0
       THEN /\ result' = [success |-> FALSE,
                          errors |-> <<"Wheel definition has no version">>]
            /\ pc' = "done"
            /\ UNCHANGED <<current, currentVersion>>
       ELSE IF ~isValidVersion(sourceDefinition.version)
       THEN /\ result' = [success |-> FALSE,
                          errors |-> <<"Invalid source version format">>]
            /\ pc' = "done"
            /\ UNCHANGED <<current, currentVersion>>
       ELSE IF ~isValidVersion(targetVersion)
       THEN /\ result' = [success |-> FALSE,
                          errors |-> <<"Invalid target version format">>]
            /\ pc' = "done"
            /\ UNCHANGED <<current, currentVersion>>
       ELSE IF compareVersions(sourceDefinition.version, targetVersion) = 0
       THEN /\ result' = [success |-> TRUE, migrated |-> sourceDefinition]
            /\ pc' = "done"
            /\ UNCHANGED <<current, currentVersion>>
       ELSE IF compareVersions(sourceDefinition.version, targetVersion) > 0
       THEN /\ result' = [success |-> FALSE,
                          errors |-> <<"Cannot migrate backwards">>]
            /\ pc' = "done"
            /\ UNCHANGED <<current, currentVersion>>
       ELSE /\ current' = sourceDefinition
            /\ currentVersion' = sourceDefinition.version
            /\ pc' = "loop"
            /\ UNCHANGED result
    /\ UNCHANGED <<migrations, sourceDefinition, targetVersion, errors,
                   applied>>
    /\ UNCHANGED <<orientationVars, registryVars, loaderVars, presetVars>>

(* one iteration of the while loop; an iteration whose migration throws     *)
(* leaves the loop and returns                                              *)
MigrateStep ==
    /\ pc = "loop"
    /\ compareVersions(currentVersion, targetVersion) < 0
    /\ NumberOr0(Split(currentVersion, ".")[3]) < MaxPatch
    /\ LET nextVersion == getNextVersion(currentVersion)
           migrationKey == MigrationKey(currentVersion, nextVersion)
           migrationFunctions == MapGet(migrations, migrationKey)
       IN  IF ~MapHas(migrations, migrationKey)
           THEN /\ current' = WithVersion(current, nextVersion)
                /\ currentVersion' = nextVersion
                /\ UNCHANGED <<errors, result, applied, pc>>
           ELSE /\ applied' = applied \o CalledMigrations(migrationFunctions)
                /\ IF CallMigrations(migrationFunctions, current).kind
                          = "return"
                   THEN /\ current' = WithVersion(
                                CallMigrations(migrationFunctions,
                                               current).value,
                                nextVersion)
                        /\ currentVersion' = nextVersion
                        /\ UNCHANGED <<errors, result, pc>>
                   ELSE /\ errors' = Append(errors, "Migration failed")
                        /\ result' = [success |-> FALSE, errors |-> errors']
                        /\ pc' = "done"
                        /\ UNCHANGED <<current, currentVersion>>
    /\ UNCHANGED <<migrations, sourceDefinition, targetVersion>>
    /\ UNCHANGED <<orientationVars, registryVars, loaderVars, presetVars>>

(* the loop condition fails: the function returns *)
MigrateReturn ==
    /\ pc = "loop"
    /\ ~(compareVersions(currentVersion, targetVersion) < 0)
    /\ result' = IF Len(errors) > 0
                 THEN [success |-> FALSE, errors |-> errors]
                 ELSE [success |-> TRUE, migrated |-> current]
    /\ pc' = "done"
    /\ UNCHANGED <<migrations, sourceDefinition, targetVersion, current,
                   currentVersion, errors, applied>>
    /\ UNCHANGED <<orientationVars, registryVars, loaderVars, presetVars>>

NextMigration ==
    \/ RegisterMigration
    \/ MigrateStart
    \/ MigrateStep
    \/ MigrateReturn

SpecMigration == InitMigration /\ [][NextMigration]_vars

(* One call of migrateWheelDefinition on a registry that earlier calls of  *)
(* registerMigration have filled.  The call is synchronous and runs on: a   *)
(* step of it that can be taken is taken.                                   *)
MigrationRegistries ==
    {<<>>} \cup
    {MapSet(<<>>, MigrationKey(step[1], step[2]), <<migration>>) :
        step \in MigrationSteps, migration \in MigrationFunctions}

InitMigrationRun ==
    /\ pc = "input"
    /\ sourceDefinition \in MigrationDefinitions
    /\ targetVersion \in TargetVersions
    /\ migrations \in MigrationRegistries
    /\ current = NoProps /\ currentVersion = <<>> /\ errors = <<>>
    /\ result = NoProps /\ applied = <<>>
    /\ OrientationIdle
    /\ RegistryIdle /\ LoaderIdle /\ PresetIdle

NextMigrationRun ==
    \/ MigrateStart
    \/ MigrateStep
    \/ MigrateReturn

FairSpecMigration ==
    /\ InitMigrationRun /\ [][NextMigrationRun]_vars
    /\ WF_vars(NextMigrationRun)

-----------------------------------------------------------------------------
(* Preset specification: one call of createPresetFromWheel, on the initial  *)
(* registry or on a registry where one wheel has been registered            *)

InitPreset ==
    /\ pc = "input"
    /\ \/ userDefinitions = <<>> /\ history = <<>>
       \/ \E wheel \in PresetWheels :
              /\ userDefinitions =
                     MapSet(<<>>, normalizeWheelName(wheel.name), wheel)
              /\ history = <<[op |-> "register", definition |-> wheel]>>
    /\ call = [op |-> "none"] /\ found = Undefined
    /\ removed = FALSE /\ listed = <<>>
    /\ wheelName \in PresetWheelNames
    /\ nameOfPreset = PresetName
    /\ visualOverrides \in VisualConfigs(OverrideColor)
    /\ glyphOverrides \in GlyphConfigs(OverrideGlyph, 20)
    /\ preset = Passed
    /\ OrientationIdle /\ LoaderIdle /\ MigrationIdle

CreatePresetFromWheel ==
    /\ pc = "input"
    /\ pc' = "preset"
    /\ preset' = createPresetFromWheel(wheelName, nameOfPreset,
                                       visualOverrides, glyphOverrides)
    /\ UNCHANGED <<wheelName, nameOfPreset, visualOverrides,
                   glyphOverrides>>
    /\ UNCHANGED <<orientationVars, registryVars, loaderVars, migrationVars>>

NextPreset == CreatePresetFromWheel

SpecPreset == InitPreset /\ [][NextPreset]_vars

-----------------------------------------------------------------------------
(* Chart preset specification: the built-in chart presets are built by      *)
(* createPresetFromWheel when the module is loaded, on the initial          *)
(* registry.  Each entry of chartPresets is the key of the preset with the  *)
(* first two arguments of its call; the override arguments are drawn from   *)
(* the override inputs.                                                     *)

ChartPreset(key, wheel, name) ==
    [key |-> key, wheelName |-> wheel, presetName |-> name]

chartPresets ==
    <<ChartPreset("classic", StandardNatalName, "Classic"),
      ChartPreset("modern", StandardNatalName, "Modern"),
      ChartPreset("minimal", StandardNatalName, "Minimal"),
      ChartPreset("traditional", StandardNatalName, "Traditional"),
      ChartPreset("complex", ComplexNatalName, "Complex"),
      ChartPreset("transits", BiWheelNatalTransitName, "Transits"),
      ChartPreset("simple", SimpleNatalName, "Simple"),
      ChartPreset("bi-wheel-traditional", BiWheelNatalTransitName,
                  "Bi-Wheel Traditional"),
      ChartPreset("bi-wheel-modern", BiWheelNatalTransitName,
                  "Bi-Wheel Modern"),
      ChartPreset("bi-wheel-transits", BiWheelNatalTransitName,
                  "Bi-Wheel Transits")>>

InitChartPresets ==
    /\ pc = "load"
    /\ RegistryIdle
    /\ \E i \in 1..Len(chartPresets) :
           /\ wheelName = chartPresets[i].wheelName
           /\ nameOfPreset = chartPresets[i].presetName
    /\ visualOverrides \in VisualConfigs(OverrideColor)
    /\ glyphOverrides \in GlyphConfigs(OverrideGlyph, 20)
    /\ preset = Passed
    /\ OrientationIdle /\ LoaderIdle /\ MigrationIdle

BuildChartPreset ==
    /\ pc = "load"
    /\ pc' = "built"
    /\ preset' = createPresetFromWheel(wheelName, nameOfPreset,
                                       visualOverrides, glyphOverrides)
    /\ UNCHANGED <<wheelName, nameOfPreset, visualOverrides,
                   glyphOverrides>>
    /\ UNCHANGED <<orientationVars, registryVars, loaderVars, migrationVars>>

NextChartPresets == BuildChartPreset

SpecChartPresets == InitChartPresets /\ [][NextChartPresets]_vars

-----------------------------------------------------------------------------
(* Rule engine specification: one chart view session, any sequence of at    *)
(* most MaxTicks evaluation ticks                                           *)

InitRules ==
    /\ pc = "session"
    /\ program \in Programs
    /\ appliedRuleIds = {}
    /\ previousHousePositions = NoProps
    /\ activeFrame = program.baseFrame
    /\ snapshot = NoProps /\ effectLog = <<>> /\ ticks = 0
    /\ TransformIdle /\ AngleIdle /\ KeyIdle /\ FrameIdle /\ LockIdle
    /\ WheelIdle

EvaluateTick ==
    /\ pc = "session"
    /\ ticks < MaxTicks
    /\ \E chart \in Snapshots :
           LET state == EvaluateRules(
                            program.rules,
                            [activeFrame |-> activeFrame,
                             appliedRuleIds |-> appliedRuleIds,
                             effectLog |-> effectLog],
                            previousHousePositions, chart, ticks + 1)
           IN  /\ snapshot' = chart
               /\ activeFrame' = state.activeFrame
               /\ appliedRuleIds' = state.appliedRuleIds
               /\ effectLog' = state.effectLog
               /\ previousHousePositions' = HousePositions(chart)
    /\ ticks' = ticks + 1
    /\ UNCHANGED <<pc, program>>
    /\ UNCHANGED <<transformVars, angleVars, keyVars, frameVars, lockVars,
                   wheelVars>>

NextRules == EvaluateTick

SpecRules == InitRules /\ [][NextRules]_vars

-----------------------------------------------------------------------------
(* Export specification: a definition is exported with                      *)
(* exportWheelDefinitionToJSON and the text is loaded again                 *)

InitExport ==
    /\ pc = "export"
    /\ exportDefinition \in ExportDefinitions
    /\ pretty \in BOOLEAN
    /\ json = [wellFormed |-> FALSE] /\ outcome = Passed
    /\ OrientationIdle
    /\ RegistryIdle /\ MigrationIdle /\ PresetIdle

ExportWheelDefinitionToJSON ==
    /\ pc = "export"
    /\ json' = exportWheelDefinitionToJSON(exportDefinition, pretty)
    /\ pc' = "input"
    /\ UNCHANGED <<outcome, exportDefinition, pretty>>
    /\ UNCHANGED <<orientationVars, registryVars, migrationVars,
                   presetVars>>

NextExport ==
    \/ ExportWheelDefinitionToJSON
    \/ LoadWheelDefinitionFromJSON

SpecExport == InitExport /\ [][NextExport]_vars

-----
(* The angle arithmetic of the specification, stated without the code's     *)
(* remainder and folding steps                                              *)

(* the representative of x in [0, 360) *)
Normalize360(x) == Rat(x.n % (FullCircle * x.d), x.d)

(* the difference a - b folded into (-180, 180] *)
ShortestDelta(a, b) ==
    CHOOSE d \in (1 - HalfCircle)..HalfCircle : (a - b - d) % FullCircle = 0

InCircle(x) == RGe(x, Q(0)) /\ RLt(x, Q(FullCircle))

ForwardDone == pc \in {"screen", "world", "legacyScreen", "legacyWorld"}

BackDone == pc \in {"world", "legacyScreen", "legacyWorld"}

-----------------------------------------------------------------------------
(* C1: under the anchor-relative model, for every worldLongitude in         *)
(* [0, 360), every anchorLongitude, direction and angularFlip, converting   *)
(* to a screen angle and back returns worldLongitude (in both versions of   *)
(* the utilities).                                                          *)
RoundTripLegacy ==
    (~UsesZeroPoint(viewFrame) /\ worldLongitude \in 0..(FullCircle - 1)) =>
        /\ BackDone => worldBack = Q(worldLongitude)
        /\ pc = "legacyWorld" => legacyBack = Q(worldLongitude)

RoundTripLegacyWitness ==
    /\ pc = "legacyWorld"
    /\ ~UsesZeroPoint(viewFrame)
    /\ viewFrame.direction = "ccw" /\ Truthy(viewFrame, "angularFlip")
    /\ worldLongitude = 185 /\ anchorLongitude = 455
    /\ screenAngle # Q(viewFrame.screenAngleDeg)
    /\ worldBack = Q(185) /\ legacyBack = Q(185)

-----------------------------------------------------------------------------
-----------------------------------------------------------------------------
(* a zero-point frame whose direction is a number (+1 when omitted) *)
ZeroPointDirected(frame) ==
    /\ UsesZeroPoint(frame)
    /\ Has(frame, "direction") => frame.direction \in {"1", "-1"}

(* C2 as stated: under the zero-point model screenToWorldLongitude undoes   *)
(* worldToScreenAngle for every direction, every scale and every            *)
(* worldLongitude in [0, 360).                                              *)
RoundTripZeroPointAnyScale ==
    (/\ ZeroPointDirected(viewFrame)
     /\ worldLongitude \in 0..(FullCircle - 1)
     /\ BackDone) => worldBack = Q(worldLongitude)

(* C2 amended: the round trip holds under the zero-point model for every    *)
(* direction and worldZero when scale is 1 or omitted, and when             *)
(* 0 < scale <= 1 with screenZero in [0, 360).                              *)
RoundTripZeroPointBounded ==
    (/\ ZeroPointDirected(viewFrame)
     /\ \/ ScaleOr1(viewFrame) = Q(1)
        \/ /\ RGt(ScaleOr1(viewFrame), Q(0))
           /\ RGe(Q(1), ScaleOr1(viewFrame))
           /\ viewFrame.screenZero \in 0..(FullCircle - 1)
     /\ worldLongitude \in 0..(FullCircle - 1)
     /\ BackDone) => worldBack = Q(worldLongitude)

RoundTripZeroPointWitness ==
    /\ pc = "world"
    /\ UsesZeroPoint(viewFrame)
    /\ Has(viewFrame, "direction") /\ viewFrame.direction = "-1"
    /\ Has(viewFrame, "scale") /\ viewFrame.scale = Q(1)
    /\ viewFrame.worldZero = 95 /\ viewFrame.screenZero = 450
    /\ worldLongitude = 185
    /\ screenAngle = Q(0)
    /\ worldBack = Q(185)

-----------------------------------------------------------------------------
(* C3 as stated: under the anchor-relative model the anchor's own longitude *)
(* maps to frame.screenAngleDeg, for every screenAngleDeg.                  *)
AnchorFixedPointExact ==
    (/\ ~UsesZeroPoint(viewFrame)
     /\ worldLongitude = anchorLongitude
     /\ ForwardDone) => screenAngle = Q(viewFrame.screenAngleDeg)

(* C3 amended: the anchor's own longitude maps to screenAngleDeg reduced    *)
(* into [0, 360), which is screenAngleDeg itself when that lies in          *)
(* [0, 360), for every direction and angularFlip.                           *)
AnchorFixedPoint ==
    (/\ ~UsesZeroPoint(viewFrame)
     /\ worldLongitude = anchorLongitude
     /\ ForwardDone) =>
        /\ screenAngle = Q(viewFrame.screenAngleDeg % FullCircle)
        /\ viewFrame.screenAngleDeg \in 0..(FullCircle - 1)
               => screenAngle = Q(viewFrame.screenAngleDeg)

AnchorFixedPointWitness ==
    /\ pc = "screen"
    /\ ~UsesZeroPoint(viewFrame)
    /\ viewFrame.direction = "ccw" /\ Truthy(viewFrame, "angularFlip")
    /\ worldLongitude = 455 /\ anchorLongitude = 455
    /\ viewFrame.screenAngleDeg = 180
    /\ screenAngle = Q(180)

-----------------------------------------------------------------------------
(* C5: under the zero-point model worldToScreenAngle(L, frame, _) is        *)
(* normalize(screenZero + direction * shortestDelta(L, worldZero) * scale), *)
(* direction defaulting to +1 and scale to 1, whatever anchorLongitude is;  *)
(* worldZero maps to normalize(screenZero), and with scale 1 and direction  *)
(* +1 a world step of 10 degrees moves the screen angle by 10 degrees.      *)
ZeroPointExpected(longitude, frame) ==
    Normalize360(RAdd(Q(frame.screenZero),
        RMul(RMul(DirectionOr1(frame),
                  Q(ShortestDelta(longitude, frame.worldZero))),
             ScaleOr1(frame))))

-----------------------------------------------------------------------------
(* C6: under the anchor-relative model worldToScreenAngle(L, frame, A) is   *)
(* normalize(screenAngleDeg + s * shortestDelta(L, A)) with s = -1 when     *)
(* exactly one of direction = 'ccw' and angularFlip holds, else +1; with    *)
(* screenAngleDeg 180, 'ccw' and A = 95, 185 maps to 90 and 95 to 180.      *)
LegacySign(frame) ==
    IF (frame.direction = "ccw") # Truthy(frame, "angularFlip")
    THEN -1 ELSE 1

LegacyExpected(longitude, frame, anchor) ==
    Q((frame.screenAngleDeg
          + LegacySign(frame) * ShortestDelta(longitude, anchor))
      % FullCircle)

LegacyFormula ==
    ~UsesZeroPoint(viewFrame) =>
        /\ ForwardDone =>
               screenAngle = LegacyExpected(worldLongitude, viewFrame,
                                            anchorLongitude)
        /\ pc \in {"legacyScreen", "legacyWorld"} =>
               legacyScreen = LegacyExpected(worldLongitude, viewFrame,
                                             anchorLongitude)
        /\ (/\ viewFrame.screenAngleDeg = 180
            /\ viewFrame.direction = "ccw"
            /\ ~Truthy(viewFrame, "angularFlip")
            /\ anchorLongitude = 95 /\ ForwardDone) =>
               /\ worldLongitude = 185 => screenAngle = Q(90)
               /\ worldLongitude = 95 => screenAngle = Q(180)

LegacyFormulaWitness ==
    /\ pc = "legacyScreen"
    /\ ~UsesZeroPoint(viewFrame)
    /\ viewFrame.screenAngleDeg = 180 /\ viewFrame.direction = "ccw"
    /\ ~Has(viewFrame, "angularFlip")
    /\ anchorLongitude = 95 /\ worldLongitude = 185
    /\ screenAngle = Q(90) /\ legacyScreen = Q(90)

-----------------------------------------------------------------------------
(* C7: two frames with the same key are transform-equivalent: whenever      *)
(* viewFrameToKey gives two frames the same key, worldToScreenAngle gives   *)
(* every longitude the same screen angle under both (frames that carry      *)
(* worldZero, screenZero and scale included).                               *)
KeySoundness ==
    (pc = "compared" /\ frameKey = otherKey) => screenAngle = otherScreen

-----------------------------------------------------------------------------
(* C8: normalizeViewFrame gives each of referenceFrame, anchor,             *)
(* screenAngleDeg, direction, radialFlip and angularFlip the partial's      *)
(* value when supplied and otherwise its default ('ecliptic', angle ASC,    *)
(* 180, 'ccw', false, false); normalizing twice equals normalizing once.    *)
FrameProps ==
    {"referenceFrame", "anchor", "screenAngleDeg", "direction",
     "radialFlip", "angularFlip"}

FrameDefault(prop) ==
    CASE prop = "referenceFrame" -> "ecliptic"
      [] prop = "anchor" -> [kind |-> "angle", type |-> "ASC"]
      [] prop = "screenAngleDeg" -> 180
      [] prop = "direction" -> "ccw"
      [] prop = "radialFlip" -> FALSE
      [] prop = "angularFlip" -> FALSE

NormalizeFrameDefaults ==
    /\ pc \in {"normalized", "renormalized"} =>
           \A prop \in FrameProps :
               /\ Has(normalFrame, prop)
               /\ normalFrame[prop] =
                      IF Has(partialFrame, prop) THEN partialFrame[prop]
                      ELSE FrameDefault(prop)
    /\ pc = "renormalized" => renormalFrame = normalFrame

NormalizeFrameDefaultsWitness ==
    /\ pc = "renormalized"
    /\ Has(partialFrame, "screenAngleDeg") /\ partialFrame.screenAngleDeg = 0
    /\ ~Has(partialFrame, "direction") /\ ~Has(partialFrame, "anchor")
    /\ normalFrame.screenAngleDeg = 0
    /\ normalFrame.direction = "ccw"
    /\ normalFrame.anchor = [kind |-> "angle", type |-> "ASC"]
    /\ renormalFrame = normalFrame

-----------------------------------------------------------------------------
(* C9: lockRuleApplies(rule, kind, id) is true exactly when the subject's   *)
(* kind equals kind and either kind is object and id is in subject.ids, or  *)
(* kind is house/sign/angle and the subject's list is absent or contains    *)
(* id; a house subject without indices matches every house, one with        *)
(* indices [1, 10] matches only houses 1 and 10, and the order of the list  *)
(* does not matter.                                                         *)
ListProp(kind) ==
    CASE kind = "object" -> "ids"
      [] kind = "angle" -> "types"
      [] OTHER -> "indices"

Members(list) == {list[i] : i \in 1..Len(list)}

Reverse(list) == [i \in 1..Len(list) |-> list[Len(list) + 1 - i]]

Reordered(rule) ==
    LET prop == ListProp(rule.subject.kind)
    IN  IF Has(rule.subject, prop)
        THEN [rule EXCEPT !.subject[prop] = Reverse(@)]
        ELSE rule

LockExpected(rule, kind, id) ==
    /\ rule.subject.kind = kind
    /\ IF kind = "object" THEN id \in Members(rule.subject.ids)
       ELSE \/ ~Has(rule.subject, ListProp(kind))
            \/ id \in Members(rule.subject[ListProp(kind)])

LockMatcher ==
    pc = "matched" =>
        /\ applies = LockExpected(lockRule, elementType, elementId)
        /\ applies = lockRuleApplies(Reordered(lockRule), elementType,
                                     elementId)
        /\ (elementType = "house" /\ lockRule.subject = [kind |-> "house"])
               => applies
        /\ (/\ elementType = "house"
            /\ lockRule.subject = [kind |-> "house", indices |-> <<1, 10>>])
               => (applies <=> elementId \in {1, 10})

LockMatcherWitness ==
    /\ pc = "matched"
    /\ lockRule.subject = [kind |-> "house", indices |-> <<1, 10>>]
    /\ elementType = "house"
    /\ elementId = 10
    /\ applies

-----------------------------------------------------------------------------
(* a house, sign or angle element matched against a subject of its kind *)
ListedKind ==
    /\ pc = "matched"
    /\ elementType \in {"house", "sign", "angle"}
    /\ lockRule.subject.kind = elementType

(* C10 as stated: a house/sign/angle subject with an empty list applies to  *)
(* every element of its kind, like a subject whose list is absent.          *)
EmptyListIsWildcard ==
    (/\ ListedKind
     /\ Has(lockRule.subject, ListProp(elementType))
     /\ Len(lockRule.subject[ListProp(elementType)]) = 0) => applies

(* C10 amended: a house/sign/angle subject whose list is absent applies to  *)
(* every element of its kind, and one with an empty list applies to none.   *)
EmptyListMatchesNothing ==
    ListedKind =>
        /\ ~Has(lockRule.subject, ListProp(elementType)) => applies
        /\ (/\ Has(lockRule.subject, ListProp(elementType))
            /\ Len(lockRule.subject[ListProp(elementType)]) = 0) => ~applies

EmptyListMatchesNothingWitness ==
    /\ pc = "matched"
    /\ lockRule.subject = [kind |-> "house", indices |-> <<>>]
    /\ elementType = "house"
    /\ elementId = 1
    /\ ~applies

-----------------------------------------------------------------------------
(* the frame that differs from the given one only in radialFlip *)
RadialFlipToggled(frame) ==
    IF Truthy(frame, "radialFlip")
    THEN [prop \in DOMAIN frame \ {"radialFlip"} |-> frame[prop]]
    ELSE ("radialFlip" :> TRUE) @@ frame

RadialFlipUnset(frame) ==
    IF Has(frame, "radialFlip") THEN frame
    ELSE ("radialFlip" :> FALSE) @@ frame

(* C11: radialFlip does not take part in the angular transform: two frames  *)
(* that differ only in radialFlip give worldToScreenAngle and               *)
(* screenToWorldLongitude the same value for every input, under the         *)
(* anchor-relative and the zero-point model.                                *)
RadialFlipIgnored ==
    \A other \in {RadialFlipToggled(viewFrame), RadialFlipUnset(viewFrame)} :
        /\ ForwardDone =>
               screenAngle = worldToScreenAngle(Q(worldLongitude), other,
                                                Q(anchorLongitude))
        /\ BackDone =>
               worldBack = screenToWorldLongitude(screenAngle, other,
                                                  Q(anchorLongitude))
        /\ pc \in {"legacyScreen", "legacyWorld"} =>
               legacyScreen = legacyWorldToScreenAngle(Q(worldLongitude),
                                  other, Q(anchorLongitude))
        /\ pc = "legacyWorld" =>
               legacyBack = legacyScreenToWorldLongitude(legacyScreen, other,
                                                         Q(anchorLongitude))

RadialFlipIgnoredWitness ==
    /\ pc = "legacyWorld"
    /\ Truthy(viewFrame, "radialFlip")
    /\ viewFrame.direction = "ccw" /\ viewFrame.screenAngleDeg = 180
    /\ ~Has(viewFrame, "angularFlip")
    /\ worldLongitude = 185 /\ anchorLongitude = 95
    /\ screenAngle = Q(90) /\ worldBack = Q(185)
    /\ screenAngle = worldToScreenAngle(Q(worldLongitude),
                         RadialFlipToggled(viewFrame), Q(anchorLongitude))

-----------------------------------------------------------------------------
(* The registry of the specification, read off the history of calls *)

(* the name lower-cased, each run of whitespace replaced by one hyphen *)
NormalizedName(name) ==
    LET lower == toLowerCase(name)
        marked == [i \in 1..Len(lower) |->
                      [char |-> IF IsWhitespace(lower[i]) THEN "-"
                                ELSE lower[i],
                       kept |-> \/ ~IsWhitespace(lower[i])
                                \/ i = 1
                                \/ ~IsWhitespace(lower[i - 1])]]
        Kept(mark) == mark.kept
        marks == SelectSeq(marked, Kept)
    IN  [k \in 1..Len(marks) |-> marks[k].char]

NameOf(op) == IF op.op = "register" THEN op.definition.name ELSE op.name

(* the definition most recently registered under the normalized name and    *)
(* not unregistered since                                                   *)
LastRegistered(ops, name) ==
    LET same == {i \in 1..Len(ops) :
                    NormalizedName(NameOf(ops[i])) = NormalizedName(name)}
    IN  IF same = {} THEN Undefined
        ELSE LET last == CHOOSE i \in same : \A j \in same : j <= i
             IN  IF ops[last].op = "register" THEN ops[last].definition
                 ELSE Undefined

(* the built-in of the normalized name *)
BuiltInOf(name) ==
    IF NormalizedName(name) = NormalizedName(standardNatal.name)
    THEN standardNatal ELSE Undefined

-----------------------------------------------------------------------------
(* the entries of the Map other than the one of the normalized name *)
WithoutEntry(map, name) ==
    LET Other(entry) == entry.key # NormalizedName(name)
    IN  SelectSeq(map, Other)

(* what a step that is a call unregisterWheelDefinition(name) returns and   *)
(* removes                                                                  *)
UnregisterEffect ==
    /\ removed' = (LastRegistered(history, call'.name) # Undefined)
    /\ removed' =>
           /\ userDefinitions' = WithoutEntry(userDefinitions, call'.name)
           /\ Len(userDefinitions') = Len(userDefinitions) - 1
    /\ ~removed' => userDefinitions' = userDefinitions

(* C13 as stated: unregisterWheelDefinition(name) returns true exactly when *)
(* a user definition is registered under the normalized name, and then      *)
(* removes only that entry, after which getWheelDefinition(name) returns    *)
(* undefined; otherwise it returns false and leaves the registry unchanged. *)
UnregisterThenUndefined ==
    [][\A name \in LookupNames :
          call' = [op |-> "unregister", name |-> name] =>
              /\ UnregisterEffect
              /\ removed' => getWheelDefinition(name)' = Undefined]_vars

(* C13 amended: as above, except that after the removal                     *)
(* getWheelDefinition(name) returns the built-in of the normalized name     *)
(* when there is one ('Standard Natal Wheel'), and undefined otherwise.     *)
UnregisterThenBuiltIn ==
    [][\A name \in LookupNames :
          call' = [op |-> "unregister", name |-> name] =>
              /\ UnregisterEffect
              /\ removed' => getWheelDefinition(name)' = BuiltInOf(name)]_vars

UnregisterThenBuiltInWitness ==
    /\ call = [op |-> "unregister", name |-> LowerStandardName]
    /\ removed
    /\ Len(history) = 3
    /\ history[1].op = "register"
    /\ history[1].definition.name = StandardNatalName
    /\ history[2].op = "register"
    /\ history[2].definition.name = CaseTestName
    /\ userDefinitions = <<[key |-> HyphenCaseTestName,
                            value |-> history[2].definition]>>
    /\ getWheelDefinition(StandardNatalName) = standardNatal
    /\ getWheelDefinition(CaseTestName) = history[2].definition

-----------------------------------------------------------------------------
(* the user definitions registered and neither overwritten nor unregistered *)
(* since                                                                    *)
CurrentlyRegistered(ops) ==
    {LastRegistered(ops, NameOf(ops[i])) : i \in 1..Len(ops)} \ {Undefined}

-----------------------------------------------------------------------------
(* C19: the Vedic Natal Wheel is a built-in: with no user registration      *)
(* getWheelDefinition('Vedic Natal Wheel') returns the vedicNatal           *)
(* definition, and the names reported by getBuiltInWheelNames are exactly   *)
(* the names getWheelDefinition resolves without registration.              *)
VedicIsBuiltIn ==
    (call.op = "get" /\ history = <<>>) =>
        /\ call.name = VedicNatalName => found = vedicNatal
        /\ found # Undefined <=>
               \E i \in 1..Len(getBuiltInWheelNames) :
                   NormalizedName(getBuiltInWheelNames[i])
                       = NormalizedName(call.name)

-----------------------------------------------------------------------------
LoaderDone == pc \in {"loaded", "registered"}

(* the rings of the JSON text, when it is the text of an object with a      *)
(* rings array                                                              *)
JsonRings ==
    IF json.wellFormed /\ Prop(json.value, "rings").t = "array"
    THEN Prop(json.value, "rings").v ELSE <<>>

(* both radii are numbers and the inner one is not below the outer one *)
RadiiMisordered(ring) ==
    /\ Prop(ring, "radiusInner").t = "number"
    /\ Prop(ring, "radiusOuter").t = "number"
    /\ RGe(Prop(ring, "radiusInner").v, Prop(ring, "radiusOuter").v)

(* nothing the validation looks at before the order of the radii is wrong:  *)
(* the definition's name, the rings before this one, and this ring's slug,  *)
(* type, label, orderIndex and the range of its radii                       *)
ValidUpToRadii(i) ==
    LET ring == JsonRings[i]
        InRange(r) == RGe(r.v, Q(0)) /\ RGe(Q(1), r.v)
    IN  /\ Prop(json.value, "name").t = "string"
        /\ Len(Prop(json.value, "name").v) > 0
        /\ \A j \in 1..(i - 1) : JsonRings[j] = BaseRing
        /\ Prop(ring, "slug") = Str("ring_signs")
        /\ Prop(ring, "type") = Str("signs")
        /\ Prop(ring, "label") = Str("Zodiac Signs")
        /\ Prop(ring, "orderIndex").t = "number"
        /\ InRange(Prop(ring, "radiusInner"))
        /\ InRange(Prop(ring, "radiusOuter"))

(* C15: loading a wheel definition one of whose rings has                   *)
(* radiusInner >= radiusOuter (e.g. 0.9 and 0.5) fails validation, and,     *)
(* when nothing checked before the order of that ring's radii is wrong,     *)
(* the failure names that ring's radius field with the ring's index,        *)
(* rings[i].radius.                                                         *)
RadiusOrderRejected ==
    LoaderDone =>
        \A i \in 1..Len(JsonRings) :
            RadiiMisordered(JsonRings[i]) =>
                /\ outcome.kind = "throw"
                /\ outcome.error.name = "WheelDefinitionValidationError"
                /\ ValidUpToRadii(i) =>
                       outcome.error.field
                           = "rings[" \o ToString(i - 1) \o "].radius"

RadiusOrderRejectedWitness ==
    /\ pc = "loaded"
    /\ Len(JsonRings) = 2
    /\ JsonRings[1] = BaseRing
    /\ Prop(JsonRings[2], "radiusInner") = Num(Rat(9, 10))
    /\ Prop(JsonRings[2], "radiusOuter") = Num(Rat(5, 10))
    /\ ValidUpToRadii(2)
    /\ outcome = ThrownAt("rings[1].radius")

-----------------------------------------------------------------------------
(* C16: validation failures are always returned as values by the entry      *)
(* functions loadWheelDefinitionFromJSON and                                *)
(* registerWheelDefinitionFromJSON (as migration failures are by            *)
(* migrateWheelDefinition); none of them ever throws past the entry         *)
(* function.                                                                *)
FailuresReturned ==
    LoaderDone => outcome.kind = "return"

-----------------------------------------------------------------------------
(* the three numbers of a version *)
VersionNumbers(version) ==
    [i \in 1..3 |-> NumberOr0(Split(version, ".")[i])]

(* version a is older than version b *)
Older(a, b) ==
    LET x == VersionNumbers(a)
        y == VersionNumbers(b)
    IN  \/ x[1] < y[1]
        \/ x[1] = y[1] /\ x[2] < y[2]
        \/ x[1] = y[1] /\ x[2] = y[2] /\ x[3] < y[3]

(* both versions of the call have the form major.minor.patch *)
VersionsValid ==
    /\ Has(sourceDefinition, "version")
    /\ MatchesVersion(sourceDefinition.version)
    /\ MatchesVersion(targetVersion)

(* C17: migrating a definition to a target version older than its own       *)
(* yields a structured failure result (success = false with a non-empty     *)
(* error list and no migrated definition) and applies no migration          *)
(* function.                                                                *)
BackwardsRejected ==
    (VersionsValid /\ Older(targetVersion, sourceDefinition.version)) =>
        /\ pc # "loop"
        /\ applied = <<>>
        /\ pc = "done" =>
               /\ result.success = FALSE
               /\ Has(result, "errors") /\ Len(result.errors) > 0
               /\ ~Has(result, "migrated")

BackwardsRejectedWitness ==
    /\ pc = "done"
    /\ Has(sourceDefinition, "version")
    /\ sourceDefinition.version = Version(1, 0, 2)
    /\ targetVersion = Version(1, 0, 0)
    /\ MapHas(migrations, MigrationKey(Version(1, 0, 2), Version(1, 0, 0)))
    /\ result = [success |-> FALSE, errors |-> <<"Cannot migrate backwards">>]
    /\ applied = <<>>

-----------------------------------------------------------------------------
(* a patch step between the source and the target version for which no      *)
(* migration function is registered                                         *)
UnregisteredStep ==
    LET from == VersionNumbers(sourceDefinition.version)
        to == VersionNumbers(targetVersion)
    IN  /\ from[1] = to[1] /\ from[2] = to[2]
        /\ \E patch \in from[3]..(to[3] - 1) :
               ~MapHas(migrations,
                       MigrationKey(Version(from[1], from[2], patch),
                                    Version(from[1], from[2], patch + 1)))

(* C18: migrating across a version step for which no migration function is  *)
(* registered is reported as a structured failure result (success = false   *)
(* with error messages), not as a successful migration.                     *)
GapRejected ==
    (/\ pc = "done"
     /\ VersionsValid
     /\ Older(sourceDefinition.version, targetVersion)
     /\ UnregisteredStep) =>
        /\ result.success = FALSE
        /\ Has(result, "errors") /\ Len(result.errors) > 0

-----------------------------------------------------------------------------
(* the value of a key under three layers: the override where it is          *)
(* supplied, else the wheel's default, else the package default             *)
Layered(key, override, wheelDefault, packageDefault) ==
    IF key \in DOMAIN override THEN override[key]
    ELSE IF key \in DOMAIN wheelDefault THEN wheelDefault[key]
    ELSE packageDefault[key]

EntriesOf(config, map) ==
    IF map \in DOMAIN config THEN config[map] ELSE NoProps

LayeredConfig(config, override, wheelDefault, packageDefault, maps) ==
    /\ DOMAIN config =
           DOMAIN override \cup DOMAIN wheelDefault \cup DOMAIN packageDefault
    /\ \A key \in DOMAIN config \ maps :
           config[key] = Layered(key, override, wheelDefault, packageDefault)
    /\ \A map \in maps :
           LET overrideEntries == EntriesOf(override, map)
               wheelEntries == EntriesOf(wheelDefault, map)
           IN  /\ DOMAIN config[map] =
                      DOMAIN overrideEntries \cup DOMAIN wheelEntries
                          \cup DOMAIN packageDefault[map]
               /\ \A entry \in DOMAIN config[map] :
                      config[map][entry] =
                          Layered(entry, overrideEntries, wheelEntries,
                                  packageDefault[map])

PresetCreated == pc = "preset" /\ preset.kind = "return"

(* C20: in a preset created by createPresetFromWheel every top-level        *)
(* configuration key has the explicit override where one is supplied, else  *)
(* the wheel's default, else the package default; the entries of            *)
(* aspectColors, signGlyphs, planetGlyphs and aspectGlyphs follow the same  *)
(* precedence entry by entry, so that an override of one entry keeps the    *)
(* other entries of the wheel and of the package.                           *)
PresetLayers ==
    PresetCreated =>
        LET wheel == getWheelDefinition(wheelName)
        IN  /\ LayeredConfig(preset.value.visualConfig, visualOverrides,
                             EntriesOf(wheel, "defaultVisualConfig"),
                             defaultVisualConfig, {"aspectColors"})
            /\ LayeredConfig(preset.value.glyphConfig, glyphOverrides,
                             EntriesOf(wheel, "defaultGlyphConfig"),
                             defaultGlyphConfig,
                             {"signGlyphs", "planetGlyphs", "aspectGlyphs"})

(* the override sets one aspect colour, the wheel another, and the preset   *)
(* has both next to the package's colour of a third aspect                  *)
PresetLayersWitness ==
    /\ PresetCreated
    /\ visualOverrides = [aspectColors |-> [conjunction |-> OverrideColor]]
    /\ Has(preset.value.wheel, "defaultVisualConfig")
    /\ preset.value.wheel.defaultVisualConfig =
           [backgroundColor |-> WheelColor,
            aspectColors |-> [opposition |-> WheelColor]]
    /\ preset.value.visualConfig.aspectColors.conjunction = OverrideColor
    /\ preset.value.visualConfig.aspectColors.opposition = WheelColor
    /\ preset.value.visualConfig.aspectColors.trine = "#00FF00"
    /\ preset.value.visualConfig.backgroundColor = WheelColor
    /\ preset.value.visualConfig.strokeColor = "#000000"

-----------------------------------------------------------------------------
(* the rules whose effect the tick just taken has applied *)
AppliedNow == {effectLog'[i].rule : i \in (Len(effectLog) + 1)..Len(effectLog')}

TimesApplied(id) ==
    Cardinality({i \in 1..Len(effectLog) : effectLog[i].rule = id})

(* C21: orientation rules are one-shot per session: a tick applies only     *)
(* rules whose id is not in appliedRuleIds, the id of every rule it applies *)
(* is recorded in appliedRuleIds, which never shrinks, and over any         *)
(* sequence of ticks the effect of each rule is applied at most once.       *)
RulesOneShot ==
    [][/\ AppliedNow \cap appliedRuleIds = {}
       /\ appliedRuleIds' = appliedRuleIds \cup AppliedNow
       /\ \A i \in 1..Len(program.rules) :
              TimesApplied(program.rules[i].id)' <= 1]_vars

(* a rule applied in an earlier tick whose trigger holds again in the last  *)
(* tick, and whose effect has still been applied once only                  *)
RulesOneShotWitness ==
    /\ ticks > 1
    /\ \E i \in 1..Len(program.rules), k \in 1..Len(effectLog) :
           /\ effectLog[k].rule = program.rules[i].id
           /\ effectLog[k].tick < ticks
           /\ program.rules[i].trigger.type = "custom"
           /\ program.rules[i].trigger.id \in snapshot.custom
           /\ program.rules[i].id \in appliedRuleIds
           /\ TimesApplied(program.rules[i].id) = 1

(* the positions in program.rules of the rules the tick just taken applied *)
AppliedPositions ==
    {i \in 1..Len(program.rules) : program.rules[i].id \in AppliedNow}

LastApplied ==
    program.rules[CHOOSE i \in AppliedPositions :
                      \A j \in AppliedPositions : j <= i]

-----------------------------------------------------------------------------
(* the text cannot be parsed or its value fails a validation check *)
JsonRejected ==
    IF json.wellFormed THEN validateWheelDefinition(json.value) # Passed
    ELSE TRUE

(* C23: registerWheelDefinitionFromJSON validates before it registers: when *)
(* the text cannot be parsed or fails a validation check the call fails and *)
(* the registry is left exactly as it was, no entry added or replaced; when *)
(* it succeeds the parsed definition is returned and is registered under    *)
(* its normalized name, the other entries being left alone.                 *)
ValidatedBeforeRegistered ==
    [][pc' = "registered" =>
          IF JsonRejected
          THEN /\ outcome'.kind = "throw"
               /\ userDefinitions' = userDefinitions
          ELSE LET name == Prop(json.value, "name").v
               IN  /\ outcome' = Returned(json.value)
                   /\ MapGet(userDefinitions', NormalizedName(name))
                          = json.value
                   /\ WithoutEntry(userDefinitions', name)
                          = WithoutEntry(userDefinitions, name)]_vars

(* a text whose definition has the name of a registered definition and an   *)
(* invalid ring has been rejected, and the registered definition is still   *)
(* the earlier one                                                          *)
ValidatedBeforeRegisteredWitness ==
    /\ pc = "registered"
    /\ json.wellFormed
    /\ Prop(json.value, "name") = Str(CaseTestName)
    /\ outcome = ThrownAt("rings[0].radius")
    /\ userDefinitions =
           <<[key |-> NormalizedName(CaseTestName),
              value |-> EarlierDefinition]>>

-----------------------------------------------------------------------------
(* no user definition is registered under the key of the Standard Natal     *)
(* Wheel                                                                    *)
StandardUnshadowed == LastRegistered(history, StandardNatalName) = Undefined

(* C24: built-in definitions cannot be removed: after any sequence of       *)
(* register and unregister calls, whenever no user definition is registered *)
(* under the key of 'Standard Natal Wheel', looking that name up returns    *)
(* the built-in standardNatal; in particular, after a call that unregisters *)
(* that name, also one that removed a user definition shadowing the         *)
(* built-in, the name resolves to the built-in and is not undefined.        *)
BuiltInsStay ==
    /\ StandardUnshadowed
           => getWheelDefinition(StandardNatalName) = standardNatal
    /\ (/\ call.op = "unregister"
        /\ NormalizedName(call.name) = NormalizedName(StandardNatalName))
           => /\ StandardUnshadowed
              /\ getWheelDefinition(call.name) = standardNatal

(* a user definition that shadowed the built-in has just been unregistered  *)
(* and the name resolves to the built-in again                              *)
BuiltInsStayWitness ==
    /\ call.op = "unregister"
    /\ NormalizedName(call.name) = NormalizedName(StandardNatalName)
    /\ removed
    /\ \E i \in 1..Len(history) :
           /\ history[i].op = "register"
           /\ history[i].definition.name = StandardNatalName
           /\ history[i].definition # standardNatal
    /\ getWheelDefinition(SpacedStandardName) = standardNatal

-----------------------------------------------------------------------------
(* the target differs from the current version in the patch number only *)
PatchAhead ==
    LET from == VersionNumbers(currentVersion)
        to == VersionNumbers(targetVersion)
    IN  from[1] = to[1] /\ from[2] = to[2]

(* a call whose target is ahead by patch numbers only returns; this holds *)
MigrateReturnsWithinMinor == (pc = "loop" /\ PatchAhead) ~> (pc = "done")

-----------------------------------------------------------------------------
(* C26: for every built-in wheel definition d (standardNatal, vedicNatal,   *)
(* biWheelNatalTransit, biWheelSynastry, complexNatal, simpleNatal),        *)
(* loading the text exportWheelDefinitionToJSON(d) gives succeeds and       *)
(* yields a definition equal to d: every kind of data source a built-in     *)
(* uses is accepted by the loader's validation.                             *)
ExportLoadRoundTrip ==
    (pc = "loaded" /\ exportDefinition \in BuiltInWheels) =>
        outcome = Returned(DefinitionToJson(exportDefinition))

-----------------------------------------------------------------------------
(* C27: in every reachable registry state every definition that             *)
(* listWheelDefinitions returns is the one getWheelDefinition returns for   *)
(* its name, and no two listed definitions share a normalized name, also    *)
(* after a user has registered a definition under a built-in's name.        *)
ListMatchesLookup ==
    call.op = "list" =>
        /\ \A i \in 1..Len(listed) :
               getWheelDefinition(listed[i].name) = listed[i]
        /\ \A i, j \in 1..Len(listed) :
               NormalizedName(listed[i].name) = NormalizedName(listed[j].name)
                   => i = j

-----------------------------------------------------------------------------
(* C28: normalizeViewFrame preserves the active transform model: for a      *)
(* frame with both worldZero and screenZero set, worldToScreenAngle gives   *)
(* the same angle on the normalized frame as on the frame itself, for every *)
(* longitude and every anchor longitude.                                    *)
NormalizeKeepsTransform ==
    (pc # "input" /\ UsesZeroPoint(partialFrame)) =>
        \A longitude \in KeyLongitudes, anchor \in KeyAnchorLongitudes :
            worldToScreenAngle(Q(longitude), normalFrame, Q(anchor))
                = worldToScreenAngle(Q(longitude), partialFrame, Q(anchor))

-----------------------------------------------------------------------------
(* C29: the frame of every predefined preset in allPresets is a complete    *)
(* instance of exactly one transform model, either worldZero and screenZero *)
(* both set, or screenAngleDeg a number and direction 'cw' or 'ccw'; so     *)
(* worldToScreenAngle returns an angle in [0, 360) and viewFrameToKey       *)
(* returns a key.                                                           *)
IsAnchorComplete(frame) ==
    /\ Has(frame, "screenAngleDeg")
    /\ Has(frame, "direction") /\ frame.direction \in {"cw", "ccw"}

PresetFramesComplete ==
    pc = "key" =>
        /\ UsesZeroPoint(viewFrame) # IsAnchorComplete(viewFrame)
        /\ RGe(screenAngle, Q(0)) /\ RLt(screenAngle, Q(FullCircle))
        /\ keyOutcome.kind = "return"

-----------------------------------------------------------------------------
(* C30: every wheel name the built-in chart presets are built from resolves *)
(* through getWheelDefinition on the initial registry, so building them     *)
(* never ends in createPresetFromWheel's "Wheel definition not found".      *)
ChartPresetsResolve ==
    pc = "built" =>
        /\ getWheelDefinition(wheelName) # Undefined
        /\ preset # WheelNotFound

====
